---- MODULE Spec2Model ----
(***************************************************************************)
(* julia-in-motion: the View coordinate mapping, the escape-time value     *)
(* generator and the channel-based parallel fractal engine                 *)
(* (src/src/generator/mod.rs, src/src/generator/view.rs), the path length  *)
(* (src/src/path_util.rs), the argument loader (src/src/args.rs), the     *)
(* animation driver (src/src/main.rs, src/src/output/mod.rs) with the      *)
(* polling generator its constructor calls bind to (src/src/generator.rs), *)
(* and the crosshair of src/src/raster.rs.                                 *)
(*                                                                         *)
(* The engine takes one step for each statement that another thread can    *)
(* interleave with: the spawn, the store of the join handle and the return *)
(* of start_generation, and every acquisition of a progress lock.          *)
(*                                                                         *)
(* f64 values are modelled as exact dyadic rationals [n, sh] = n / 2^sh,   *)
(* kept normalised (n odd or sh = 0), wherever the inputs are drawn from a *)
(* set on which each f64 operation of the modelled code is exact (small    *)
(* dyadic numerators, far below 2^53), so the model computes what the code *)
(* does.  Where rounding decides a property, f64 values are modelled with  *)
(* their 53-bit significand and every operation rounds as IEEE 754 does.   *)
(***************************************************************************)
EXTENDS Integers, Naturals, Sequences, FiniteSets, TLC

VARIABLES
    gen,        \* the ValueGenerator handed to generate_fractal
    K,          \* num_threads
    interval,   \* progress_interval, in clock ticks
    threads,    \* the FractalThread objects and their worker threads
    chan,       \* the mpsc channel: messages sent and not yet received
    image,      \* the output buffer, a sequence of bytes (<<>> before allocation)
    writes,     \* per pixel index, how many times the coordinator wrote it
    co,         \* the coordinator: position, own sender, previous_progress,
                \* the progress vector being reported, the value returned
    clock,      \* Instant::now() on the coordinator's clock
    reports,    \* the vectors handed to progress_callback, in order
    fn          \* the pure function under evaluation, its inputs and result

vars == <<gen, K, interval, threads, chan, image, writes, co, clock, reports, fn>>

engineVars == <<gen, K, interval, threads, chan, image, writes, co, clock, reports>>

-----------------------------------------------------------------------------
(* Bounds of the model.                                                    *)
MaxPixels == 3
MaxK == 2
MaxIter == 3
\* points of a path handed to approximate_path_length
MaxPathPoints == 3
\* sample points of a path handed to the frame callback of a render
MaxFrames == 2
\* image widths and plane-width numerators of the rounded View checks
MaxWidth == 14
MaxPlaneWidth == 29
\* image sides of the View and generator checks
MaxDim == 4
\* plane grid of the View checks: numerators -MaxGrid..MaxGrid over 4
MaxGrid == 9

-----------------------------------------------------------------------------
(* f64 as exact dyadic rationals.                                          *)

\* (recursive helpers are functions, so that each level is computed once on
\* the value of its argument)
Pow2[k \in Nat] == IF k = 0 THEN 1 ELSE 2 * Pow2[k - 1]

Dyadic == [n : Int, sh : Nat]

Norm[a \in Dyadic] ==
    IF a.sh > 0 /\ a.n % 2 = 0
    THEN Norm[[n |-> a.n \div 2, sh |-> a.sh - 1]]
    ELSE a

Dy(n, sh) == Norm[[n |-> n, sh |-> sh]]
FromInt(i) == [n |-> i, sh |-> 0]

MaxSh(a, b) == IF a.sh >= b.sh THEN a.sh ELSE b.sh
\* numerator of a over the denominator 2^s, s >= a.sh
Lift(a, s) == a.n * Pow2[s - a.sh]

\* (the binary operations are functions of the operand values, so that an
\* operand expression is computed once)
DAddF[a \in Dyadic, b \in Dyadic] ==
    Dy(Lift(a, MaxSh(a, b)) + Lift(b, MaxSh(a, b)), MaxSh(a, b))
DMulF[a \in Dyadic, b \in Dyadic] == Dy(a.n * b.n, a.sh + b.sh)
DLtF[a \in Dyadic, b \in Dyadic] == Lift(a, MaxSh(a, b)) < Lift(b, MaxSh(a, b))

DAdd(a, b) == DAddF[a, b]
DNeg(a) == [n |-> 0 - a.n, sh |-> a.sh]
DSub(a, b) == DAddF[a, DNeg(b)]
DMul(a, b) == DMulF[a, b]
DLt(a, b) == DLtF[a, b]
DGt(a, b) == DLtF[b, a]
DLe(a, b) == ~DLtF[b, a]

\* largest e with 2^e dividing m (m > 0), and the odd part of m
TwoExp[m \in Int] == IF m # 0 /\ m % 2 = 0 THEN 1 + TwoExp[m \div 2] ELSE 0
OddPart(m) == m \div Pow2[TwoExp[m]]

\* a / b for b > 0 when the quotient is a dyadic rational (the f64 division is
\* then exact): b is its odd part times a power of two
DivExact(a, b) == a.n % OddPart(b.n) = 0
DDiv(a, b) ==
    LET q == a.n \div OddPart(b.n)
        e == a.sh + TwoExp[b.n] - b.sh
    IN  IF e >= 0 THEN Dy(q, e) ELSE [n |-> q * Pow2[0 - e], sh |-> 0]

\* (a / b) as u32 for b > 0: the cast truncates toward zero and saturates at 0
\* for negative values; a non-integer quotient of two small dyadics is further
\* than 2^-53 from an integer, so the rounded f64 quotient truncates alike
TruncDivU32Nearest(a, b) ==
    IF a.n <= 0 THEN 0
    ELSE (2 * a.n * Pow2[b.sh] + b.n * Pow2[a.sh]) \div (2 * b.n * Pow2[a.sh])

TruncDivU32(a, b) ==
    IF a.n <= 0 THEN 0
    ELSE (a.n * Pow2[b.sh]) \div (b.n * Pow2[a.sh])

-----------------------------------------------------------------------------
(* View (src/src/generator/view.rs).                                       *)

LessThanConstraint == [tag |-> "LessThanConstraint", v |-> 0]
WithinConstraint(v) == [tag |-> "WithinConstraint", v |-> v]
GreaterThanConstraint == [tag |-> "GreaterThanConstraint", v |-> 0]

new_uniform(image_width, image_height, plane_width) ==
    LET image_scale == DDiv(plane_width, FromInt(image_width))
        plane_height == DMul(FromInt(image_height), image_scale)
    IN  [image_width |-> image_width,
         image_height |-> image_height,
         image_scale_x |-> image_scale,
         image_scale_y |-> image_scale,
         plane_start_x |-> DDiv(DNeg(plane_width), FromInt(2)),
         plane_start_y |-> DDiv(DNeg(plane_height), FromInt(2))]

get_plane_coordinates(view, x, y) ==
    [re |-> DAdd(DMul(FromInt(x), view.image_scale_x), view.plane_start_x),
     im |-> DAdd(DMul(FromInt(y), view.image_scale_y), view.plane_start_y)]

\* one axis of get_pixel_coordinates: the two arms of the tuple are the same
\* code on (re, plane_start_x, image_scale_x, image_width) and on
\* (im, plane_start_y, image_scale_y, image_height)
ConstrainAxisNonStrict(plane, start, scale, dim) ==
    IF DLe(start, plane)
    THEN LET v == TruncDivU32(DSub(plane, start), scale)
         IN  IF v < dim THEN WithinConstraint(v) ELSE GreaterThanConstraint
    ELSE LessThanConstraint

ConstrainAxis(plane, start, scale, dim) ==
    IF DGt(plane, start)
    THEN LET v == TruncDivU32(DSub(plane, start), scale)
         IN  IF v < dim THEN WithinConstraint(v) ELSE GreaterThanConstraint
    ELSE LessThanConstraint

get_pixel_coordinates(view, pc) ==
    <<ConstrainAxis(pc.re, view.plane_start_x, view.image_scale_x, view.image_width),
      ConstrainAxis(pc.im, view.plane_start_y, view.image_scale_y, view.image_height)>>

-----------------------------------------------------------------------------
(* Complex<f64> (num_complex) over the dyadic numbers.                     *)

Cx(re, im) == [re |-> re, im |-> im]
CAdd(a, b) == Cx(DAdd(a.re, b.re), DAdd(a.im, b.im))
CMul(a, b) ==
    Cx(DSub(DMul(a.re, b.re), DMul(a.im, b.im)),
       DAdd(DMul(a.re, b.im), DMul(a.im, b.re)))
norm_sqr(z) == DAdd(DMul(z.re, z.re), DMul(z.im, z.im))

-----------------------------------------------------------------------------
(* Smoothing (generator/args.rs): the "none" policy of the specification,  *)
(* escape radius 2.                                                        *)

SmoothingNone == "None"
radius_squared(smoothing) == FromInt(4)
\* the "none" variant returns iteration_count unchanged
smooth(smoothing, n, z, z_prev) == n

-----------------------------------------------------------------------------
(* ValueGenerator (src/src/generator/mod.rs).                              *)

ValueGenerator(view, mandelbrot, iterations, smoothing, c) ==
    [view |-> view, mandelbrot |-> mandelbrot, iterations |-> iterations,
     smoothing |-> smoothing, c |-> c]

\* the while loop of gen_value, from the state (z, z_prev, n); yields the
\* arguments of the final call of smooth.  The next z is bound through a
\* singleton set so that it is computed once per round.
RECURSIVE gen_value_loop_late_test(_, _, _, _, _, _)
gen_value_loop_late_test(iterations, rsq, c, z, z_prev, n) ==
    IF n < iterations
    THEN CHOOSE r \in
            {IF DGt(norm_sqr(zn), rsq)
             THEN [n |-> n + 1, z |-> zn, z_prev |-> z]
             ELSE gen_value_loop_late_test(iterations, rsq, c, zn, z, n + 1) :
                zn \in {CAdd(CMul(z, z), c)}} : TRUE
    ELSE [n |-> n, z |-> z, z_prev |-> z_prev]

\* a loop that stops one round short of the cap
RECURSIVE gen_value_loop_short(_, _, _, _, _, _)
gen_value_loop_short(iterations, rsq, c, z, z_prev, n) ==
    IF n + 1 < iterations
    THEN IF DGt(norm_sqr(z), rsq)
         THEN [n |-> n, z |-> z, z_prev |-> z_prev]
         ELSE CHOOSE r \in
                {gen_value_loop_short(iterations, rsq, c, zn, z, n + 1) :
                    zn \in {CAdd(CMul(z, z), c)}} : TRUE
    ELSE [n |-> n, z |-> z, z_prev |-> z_prev]

RECURSIVE gen_value_loop(_, _, _, _, _, _)
gen_value_loop(iterations, rsq, c, z, z_prev, n) ==
    IF n < iterations
    THEN IF DGt(norm_sqr(z), rsq)
         THEN [n |-> n, z |-> z, z_prev |-> z_prev]
         ELSE CHOOSE r \in
                {gen_value_loop(iterations, rsq, c, zn, z, n + 1) :
                    zn \in {CAdd(CMul(z, z), c)}} : TRUE
    ELSE [n |-> n, z |-> z, z_prev |-> z_prev]

\* gen_value up to the call of smooth: (n, z, z_prev) as passed to it
gen_value_escape_from_loc(g, loc) ==
    LET c  == IF g.mandelbrot THEN loc ELSE g.c
    IN  gen_value_loop(g.iterations, radius_squared(g.smoothing), c, loc, loc, 0)

gen_value_escape(g, loc) ==
    LET z0 == IF g.mandelbrot THEN Cx(FromInt(0), FromInt(0)) ELSE loc
        c  == IF g.mandelbrot THEN loc ELSE g.c
    IN  gen_value_loop(g.iterations, radius_squared(g.smoothing), c, z0, z0, 0)

\* gen_value of the polling engine (src/src/generator.rs): the same loop with
\* the escape test z.norm_sqr() > 1f64; it returns n, here with the last z
gen_value_polling(g, loc) ==
    LET z0 == IF g.mandelbrot THEN Cx(FromInt(0), FromInt(0)) ELSE loc
        c  == IF g.mandelbrot THEN loc ELSE g.c
    IN  gen_value_loop(g.iterations, FromInt(1), c, z0, z0, 0)

\* (intermediate results are bound through singleton sets, so that each is
\* computed once)
gen_value(g, loc) ==
    CHOOSE r \in {smooth(g.smoothing, e.n, e.z, e.z_prev) :
                    e \in {gen_value_escape(g, loc)}} : TRUE

gen_pixel_value(g, x, y) ==
    CHOOSE r \in {gen_value(g, loc) : loc \in {get_plane_coordinates(g.view, x, y)}} : TRUE

\* mod2 on numbers given over a common denominator (it only adds and
\* subtracts size, so the denominator is preserved): the two while loops
mod2_up[value \in Int, size \in Int, min \in Int] ==
    IF value < min THEN mod2_up[value + size, size, min] ELSE value
mod2_down[value \in Int, size \in Int, max \in Int] ==
    IF value >= max THEN mod2_down[value - size, size, max] ELSE value
mod2(value, min, max) == mod2_down[mod2_up[value, max - min, min], max - min, max]

\* rationals p/q (q > 0) for the HSB arithmetic
Rat(p, q) == [p |-> p, q |-> q]
Rational == [p : Int, q : Int]
RMulF[a \in Rational, b \in Rational] == Rat(a.p * b.p, a.q * b.q)
ROneMinusF[a \in Rational] == Rat(a.q - a.p, a.q)
RFracF[a \in Rational] == Rat(a.p % a.q, a.q)
\* (a * 255f64 + 0.5f64) as u8: truncating, saturating cast
ToU8F[a \in Rational] ==
    LET t == (2 * 255 * a.p + a.q) \div (2 * a.q)
    IN  IF t < 0 THEN 0 ELSE IF t > 255 THEN 255 ELSE t

RMul(a, b) == RMulF[a, b]
ROneMinus(a) == ROneMinusF[a]
RFloor(a) == a.p \div a.q
RFrac(a) == RFracF[a]
ToU8(a) == ToU8F[a]

RGBAColor(r, g, b, a) == [r |-> r, g |-> g, b |-> b, a |-> a]
InvalidSector == [r |-> -1, g |-> -1, b |-> -1, a |-> -1]

from_hsb(hue, saturation, brightness, alpha) ==
    LET a == ToU8(alpha)
    IN  IF saturation.p = 0
        THEN RGBAColor(ToU8(brightness), ToU8(brightness), ToU8(brightness), a)
        ELSE LET sector == RMul(RFrac(hue), Rat(6, 1))
                 offset_in_sector == RFrac(sector)
                 off == RMul(brightness, ROneMinus(saturation))
                 fade_out == RMul(brightness, ROneMinus(RMul(saturation, offset_in_sector)))
                 fade_in == RMul(brightness,
                                 ROneMinus(RMul(saturation, ROneMinus(offset_in_sector))))
                 s == RFloor(sector)
             IN  CASE s = 0 -> RGBAColor(ToU8(brightness), ToU8(fade_in), ToU8(off), a)
                   [] s = 1 -> RGBAColor(ToU8(fade_out), ToU8(brightness), ToU8(off), a)
                   [] s = 2 -> RGBAColor(ToU8(off), ToU8(brightness), ToU8(fade_in), a)
                   [] s = 3 -> RGBAColor(ToU8(off), ToU8(fade_out), ToU8(brightness), a)
                   [] s = 4 -> RGBAColor(ToU8(fade_in), ToU8(off), ToU8(brightness), a)
                   [] s = 5 -> RGBAColor(ToU8(brightness), ToU8(off), ToU8(fade_out), a)
                   [] OTHER -> InvalidSector

\* the hue branch of gen_color; 3.3 is 33/10, so value * 3.3 is 33*value
\* tenths and 256 is 2560 tenths
hue_color(value) ==
    from_hsb(Rat(mod2(33 * value, 0, 2560), 2560), Rat(1, 1),
             Rat(mod2(16 * value, 0, 256), 256), Rat(1, 1))

gen_color_cap_exclusive(g, value) ==
    IF value <= g.iterations THEN hue_color(value) ELSE RGBAColor(0, 0, 0, 255)

gen_color(g, value) ==
    IF value < g.iterations THEN hue_color(value) ELSE RGBAColor(0, 0, 0, 255)

\* which arm of gen_color's if a value takes
gen_color_branch(g, value) == IF value < g.iterations THEN "hue" ELSE "black"

gen_pixel(g, x, y) ==
    CHOOSE r \in {gen_color(g, value) : value \in {gen_pixel_value(g, x, y)}} : TRUE

\* Into<[u8; 4]> for RGBAColor: #[repr(C)] field order r, g, b, a
ColorBytes(color) == <<color.r, color.g, color.b, color.a>>

-----------------------------------------------------------------------------
(* The engine's variables while a pure function is being evaluated, and    *)
(* the function variable while the engine runs.                            *)

EngineIdle ==
    /\ gen = "none" /\ K = 0 /\ interval = 0
    /\ threads = <<>> /\ chan = <<>> /\ image = <<>> /\ writes = <<>>
    /\ co = [pc |-> "idle"] /\ clock = 0 /\ reports = <<>>

FnIdle == [op |-> "engine"]

-----------------------------------------------------------------------------
(* Evaluating the View: new_uniform, then get_plane_coordinates of a pixel *)
(* followed by get_pixel_coordinates of its result, or                     *)
(* get_pixel_coordinates of a plane point of the grid.                     *)

\* plane widths on which plane_width / image_width is exact in f64
PlaneWidths == {Dy(1, 1), FromInt(1), Dy(3, 1), FromInt(2), FromInt(3), FromInt(4)}

Views ==
    {new_uniform(w, h, pw) : <<w, h, pw>> \in
        {t \in (1..MaxDim) \X (1..MaxDim) \X PlaneWidths :
            DivExact(t[3], FromInt(t[1]))}}

GridPoints == {Dy(k, 2) : k \in (0 - MaxGrid)..MaxGrid}

NoPlane == Cx(FromInt(0), FromInt(0))
NoPixel == <<LessThanConstraint, LessThanConstraint>>

InitView ==
    /\ EngineIdle
    /\ \E view \in Views :
          \/ \E x \in 0..(view.image_width - 1), y \in 0..(view.image_height - 1) :
                fn = [op |-> "view", stage |-> "pixel_in", view |-> view,
                      x |-> x, y |-> y, plane |-> NoPlane, pixel |-> NoPixel]
          \/ \E re \in GridPoints, im \in GridPoints :
                fn = [op |-> "view", stage |-> "plane_in", view |-> view,
                      x |-> 0, y |-> 0, plane |-> Cx(re, im), pixel |-> NoPixel]

PlaneOfPixel ==
    /\ fn.stage = "pixel_in"
    /\ fn' = [fn EXCEPT !.stage = "plane_out",
                        !.plane = get_plane_coordinates(fn.view, fn.x, fn.y)]
    /\ UNCHANGED engineVars

PixelOfPlane ==
    /\ fn.stage = "plane_in"
    /\ fn' = [fn EXCEPT !.stage = "pixel_out",
                        !.pixel = get_pixel_coordinates(fn.view, fn.plane)]
    /\ UNCHANGED engineVars

RoundTrip ==
    /\ fn.stage = "plane_out"
    /\ fn' = [fn EXCEPT !.stage = "round_trip",
                        !.pixel = get_pixel_coordinates(fn.view, fn.plane)]
    /\ UNCHANGED engineVars

NextView == PlaneOfPixel \/ PixelOfPlane \/ RoundTrip

SpecView == InitView /\ [][NextView]_vars

-----------------------------------------------------------------------------
(* C5: the original statement: for every in-bounds pixel (x, y), x = 0 and *)
(* y = 0 included, get_pixel_coordinates(get_plane_coordinates((x, y))) is *)
(* (WithinConstraint(x), WithinConstraint(y)).                             *)
C5_RoundTripEveryPixel ==
    fn.stage = "round_trip" =>
        fn.pixel = <<WithinConstraint(fn.x), WithinConstraint(fn.y)>>

(* C5 as amended: on views whose arithmetic is exact, the round trip gives *)
(* WithinConstraint(x) on the x axis for 1 <= x < image_width and          *)
(* LessThanConstraint for x = 0, and likewise on the y axis.               *)
C5_RoundTripInterior ==
    fn.stage = "round_trip" =>
        /\ fn.pixel[1] = IF fn.x >= 1 THEN WithinConstraint(fn.x) ELSE LessThanConstraint
        /\ fn.pixel[2] = IF fn.y >= 1 THEN WithinConstraint(fn.y) ELSE LessThanConstraint

C5_Witness ==
    /\ fn.stage = "round_trip"
    /\ fn.x >= 1 /\ fn.y = 0
    /\ fn.pixel = <<WithinConstraint(fn.x), LessThanConstraint>>

\* the declarative classification of one axis
AxisClass(r, plane, start, scale, dim) ==
    /\ (r = LessThanConstraint) <=> DLe(plane, start)
    /\ DGt(plane, start) =>
          \E v \in 0..(4 * MaxGrid + 2 * MaxDim) :
             /\ DLe(DMul(FromInt(v), scale), DSub(plane, start))
             /\ DLt(DSub(plane, start), DMul(FromInt(v + 1), scale))
             /\ r = IF v < dim THEN WithinConstraint(v) ELSE GreaterThanConstraint

(* C6: each axis of get_pixel_coordinates is classified on its own:        *)
(* LessThanConstraint iff plane <= start; otherwise WithinConstraint(v),   *)
(* v the truncation of (plane - start)/scale, iff v < dimension, and       *)
(* GreaterThanConstraint iff v >= dimension; x depends on re only, y on im.*)
C6_AxisClassification ==
    fn.stage = "pixel_out" =>
        /\ AxisClass(fn.pixel[1], fn.plane.re, fn.view.plane_start_x,
                     fn.view.image_scale_x, fn.view.image_width)
        /\ AxisClass(fn.pixel[2], fn.plane.im, fn.view.plane_start_y,
                     fn.view.image_scale_y, fn.view.image_height)

C6_Witness ==
    /\ fn.stage = "pixel_out"
    /\ fn.pixel[1] = GreaterThanConstraint
    /\ fn.pixel[2].tag = "WithinConstraint" /\ fn.pixel[2].v >= 1
    /\ fn.plane.re # fn.plane.im

-----------------------------------------------------------------------------
(* Evaluating the ValueGenerator: gen_value at a plane point, gen_color of *)
(* a value, gen_pixel of a pixel.                                          *)

\* views with an integer scale: plane points are half-integers and every
\* orbit value of up to MaxIter + 1 steps is exact in f64
GenViews ==
    {new_uniform(w, h, FromInt(w * sc)) :
        <<w, h, sc>> \in (1..MaxDim) \X (1..MaxDim) \X {1, 2}}

HalfPoints == {Dy(k, 1) : k \in -4..4}
JuliaConstants == {Cx(FromInt(0), FromInt(0)), Cx(FromInt(-1), FromInt(0)),
                   Cx(Dy(-1, 1), Dy(1, 1)), Cx(FromInt(0), FromInt(1))}

Generators(views) ==
    {ValueGenerator(v, m, it, SmoothingNone, c) :
        <<v, m, it, c>> \in views \X BOOLEAN \X (0..MaxIter) \X JuliaConstants}

NoEscape == [n |-> 0, z |-> NoPlane, z_prev |-> NoPlane]
NoColor == RGBAColor(0, 0, 0, 0)

GenInput(stage, g, x, y, loc, value) ==
    [op |-> "gen", stage |-> stage, g |-> g, x |-> x, y |-> y, loc |-> loc,
     esc |-> NoEscape, value |-> value, branch |-> "none", color |-> NoColor]

InitGen ==
    /\ EngineIdle
    /\ \/ \E g \in Generators(GenViews) :
             \E x \in 0..(g.view.image_width - 1), y \in 0..(g.view.image_height - 1) :
                fn = GenInput("pixel_in", g, x, y, NoPlane, 0)
       \/ \E g \in Generators({new_uniform(1, 1, FromInt(1))}) :
             \/ \E re \in HalfPoints, im \in HalfPoints :
                   fn = GenInput("loc_in", g, 0, 0, Cx(re, im), 0)
             \/ \E value \in -3..(MaxIter + 3) :
                   fn = GenInput("value_in", g, 0, 0, NoPlane, value)

ApplyGenValue ==
    /\ fn.stage = "loc_in"
    /\ fn' = [fn EXCEPT !.stage = "value_out",
                        !.esc = gen_value_escape(fn.g, fn.loc),
                        !.value = gen_value(fn.g, fn.loc)]
    /\ UNCHANGED engineVars

ApplyGenColor ==
    /\ fn.stage = "value_in"
    /\ fn' = [fn EXCEPT !.stage = "color_out",
                        !.branch = gen_color_branch(fn.g, fn.value),
                        !.color = gen_color(fn.g, fn.value)]
    /\ UNCHANGED engineVars

ApplyGenPixel ==
    /\ fn.stage = "pixel_in"
    /\ LET loc == get_plane_coordinates(fn.g.view, fn.x, fn.y)
           value == gen_pixel_value(fn.g, fn.x, fn.y)
       IN  fn' = [fn EXCEPT !.stage = "pixel_out",
                            !.loc = loc,
                            !.esc = gen_value_escape(fn.g, loc),
                            !.value = value,
                            !.branch = gen_color_branch(fn.g, value),
                            !.color = gen_pixel(fn.g, fn.x, fn.y)]
    /\ UNCHANGED engineVars

\* gen_value of the polling engine at the plane point
ApplyGenValuePolling ==
    /\ fn.stage = "loc_in"
    /\ fn' = [fn EXCEPT !.stage = "polling_out",
                        !.esc = gen_value_polling(fn.g, fn.loc),
                        !.value = gen_value_polling(fn.g, fn.loc).n]
    /\ UNCHANGED engineVars

NextGen == ApplyGenValue \/ ApplyGenColor \/ ApplyGenPixel \/ ApplyGenValuePolling

SpecGen == InitGen /\ [][NextGen]_vars

-----------------------------------------------------------------------------
(* generate_fractal and FractalThread (src/src/generator/mod.rs).          *)

Width == gen.view.image_width
Height == gen.view.image_height
\* N = width as usize * height as usize
PixelCount == Width * Height

\* left_over and chunk_height of generate_fractal
left_over(n, num_threads) == n % num_threads

chunk_height_inclusive(n, num_threads, index) ==
    n \div num_threads + (IF index <= left_over(n, num_threads) THEN 1 ELSE 0)

chunk_height(n, num_threads, index) ==
    n \div num_threads + (IF index < left_over(n, num_threads) THEN 1 ELSE 0)

\* let index = i * skip + offset
pixel_index_contiguous(i, skip, offset, size) == offset * size + i

pixel_index(i, skip, offset, size) == i * skip + offset

\* x = index % chunk_width, y = index / chunk_width
pixel_xy_transposed(index, chunk_width) ==
    [x |-> index \div chunk_width, y |-> index % chunk_width]

pixel_xy(index, chunk_width) ==
    [x |-> index % chunk_width, y |-> index \div chunk_width]

\* f32 progress values as fractions num/den; 0f32 is 0/1
Progress(num, den) == [num |-> num, den |-> den]

\* FractalThread::new: the object (state, progress, thread: the join handle is
\* Some) with its locks (state_lock: "free" or "co"; progress_lock: "free",
\* "co" while the coordinator reads, "worker" while the worker writes), and
\* the worker thread it will spawn (pc, tx, i and the closure's arguments)
FractalThreadNew ==
    [state |-> "NotStarted", progress |-> Progress(0, 1), thread |-> FALSE,
     state_lock |-> "free", progress_lock |-> "free",
     pc |-> "none", tx |-> FALSE, i |-> 0,
     chunk_width |-> 0, size |-> 0, offset |-> 0, skip |-> 0]

\* a start_generation that does not look at the state
start_generation_restarts(t, chunk_width, size, offset, skip) ==
    [t EXCEPT !.state_lock = "co",
              !.state = "Running", !.progress = Progress(0, 1),
              !.pc = "loop", !.tx = TRUE, !.i = 0,
              !.chunk_width = chunk_width, !.size = size,
              !.offset = offset, !.skip = skip]

\* FractalThread::start_generation on thread object t, from self.state.write()
\* to the return of thread::Builder::spawn: the state lock is taken and, when
\* the state is not Running, the state and the progress are written and the
\* thread is spawned; it runs from here on and owns the sender it was given.
\* The join handle is not stored yet and the state lock is still held.  When
\* the state is Running nothing is spawned and the sender is dropped
start_generation(t, chunk_width, size, offset, skip) ==
    IF t.state # "Running"
    THEN [t EXCEPT !.state_lock = "co",
                   !.state = "Running", !.progress = Progress(0, 1),
                   !.pc = "loop", !.tx = TRUE, !.i = 0,
                   !.chunk_width = chunk_width, !.size = size,
                   !.offset = offset, !.skip = skip]
    ELSE [t EXCEPT !.state_lock = "co"]

\* *self.thread.lock().unwrap() = Some(handle)
store_handle(t) == [t EXCEPT !.thread = TRUE]

\* start_generation returns: the guard of the state lock is dropped
end_start_generation(t) == [t EXCEPT !.state_lock = "free"]

Workers == 0..(K - 1)

\* the generators of the engine runs: Mandelbrot mode, scale 2, MaxIter
\* iterations, on every image of width 1 or 2 and at most MaxPixels pixels
\* (height 0 included)
EngineGenerators ==
    {ValueGenerator(new_uniform(w, h, FromInt(2 * w)), TRUE, MaxIter, SmoothingNone,
                    Cx(FromInt(0), FromInt(0))) :
        <<w, h>> \in {t \in {1, 2} \X (0..MaxPixels) : t[1] * t[2] <= MaxPixels}}

\* Result<Box<[u8]>, FractalGenerationError>: FractalGenerationError is an
\* enum without variants, so there is no Err value to build
FractalGenerationError == {}
Ok(img) == [tag |-> "Ok", image |-> img]
Err(e) == [tag |-> "Err", error |-> e]
Results(img) == {Ok(img)} \cup {Err(e) : e \in FractalGenerationError}
NoResult == [tag |-> "none"]

\* gen_pixel of every engine generator at every pixel position, tabulated once:
\* the value a worker sends is PixelColors[gen][x, y] = gen_pixel(gen, x, y)
PixelColors ==
    [g \in EngineGenerators |->
        [x \in 0..MaxPixels, y \in 0..MaxPixels |-> gen_pixel(g, x, y)]]

\* the state after the FractalThread objects and the channel are created
Init ==
    /\ gen \in EngineGenerators
    /\ K \in 1..MaxK
    /\ interval \in {0, 1}
    /\ threads = [w \in Workers |-> FractalThreadNew]
    /\ chan = <<>>
    /\ image = <<>>
    /\ writes = [p \in 0..(PixelCount - 1) |-> 0]
    /\ co = [pc |-> "spawn", index |-> 0, tx |-> TRUE, previous_progress |-> 0,
             thread_progress |-> <<>>, result |-> NoResult]
    /\ clock = 0
    /\ reports = <<>>
    /\ fn = FnIdle

\* one round of the "start all the threads" loop, up to the spawn inside
\* start_generation: from here the worker runs beside the rest of the call
StartGeneration ==
    /\ co.pc = "spawn" /\ co.index < K
    /\ threads[co.index].state_lock = "free"
    /\ threads' = [threads EXCEPT ![co.index] =
          start_generation(@, Width, chunk_height(PixelCount, K, co.index),
                           co.index, K)]
    /\ co' = [co EXCEPT !.pc = IF threads[co.index].state # "Running"
                                THEN "store_handle" ELSE "return_start"]
    /\ UNCHANGED <<gen, K, interval, chan, image, writes, clock, reports, fn>>

\* the assignment of the join handle, after the spawn
StoreHandle ==
    /\ co.pc = "store_handle"
    /\ threads' = [threads EXCEPT ![co.index] = store_handle(@)]
    /\ co' = [co EXCEPT !.pc = "return_start"]
    /\ UNCHANGED <<gen, K, interval, chan, image, writes, clock, reports, fn>>

\* start_generation returns and the round of the start loop is over
ReturnFromStart ==
    /\ co.pc = "return_start"
    /\ threads' = [threads EXCEPT ![co.index] = end_start_generation(@)]
    /\ co' = [co EXCEPT !.pc = "spawn", !.index = @ + 1]
    /\ UNCHANGED <<gen, K, interval, chan, image, writes, clock, reports, fn>>

\* the end of the block that owns tx: the coordinator's sender is dropped
EndStartBlockKeepsSender ==
    /\ co.pc = "spawn" /\ co.index = K
    /\ co' = [co EXCEPT !.pc = "alloc"]
    /\ UNCHANGED <<gen, K, interval, threads, chan, image, writes, clock, reports, fn>>

EndStartBlock ==
    /\ co.pc = "spawn" /\ co.index = K
    /\ co' = [co EXCEPT !.pc = "alloc", !.tx = FALSE]
    /\ UNCHANGED <<gen, K, interval, threads, chan, image, writes, clock, reports, fn>>

\* vec![0u8; width * height * 4] and previous_progress = Instant::now().  An
\* Instant is opaque and the code uses only the duration between a reading
\* and previous_progress, so time is counted in ticks from the instant last
\* assigned to previous_progress: previous_progress is at 0, the clock
\* variable is the coordinator's last reading, and an assignment
\* previous_progress = now moves the origin to now
Allocate ==
    /\ co.pc = "alloc"
    /\ image' = [b \in 1..(Width * Height * 4) |-> 0]
    /\ co' = [co EXCEPT !.pc = "recv", !.previous_progress = clock]
    /\ UNCHANGED <<gen, K, interval, threads, chan, writes, clock, reports, fn>>

\* image[index * 4..index * 4 + 4].copy_from_slice(bytes)
copy_pixel(img, index, bytes) ==
    [b \in 1..Len(img) |->
        IF b > index * 4 /\ b <= index * 4 + 4 THEN bytes[b - index * 4] ELSE img[b]]

\* now.saturating_duration_since(previous_progress)
saturating_duration_since(now, earlier) == IF now >= earlier THEN now - earlier ELSE 0

\* FractalThread::get_progress
get_progress(t) == t.progress

\* one round of "for message in rx", up to the test of the interval: the
\* received pixel is written and the time is read; when more than
\* progress_interval has passed the round goes on to read every thread's
\* progress, one lock at a time.  Instant::now() yields any time not before
\* the clock's last reading; the code only tests whether the duration since
\* previous_progress exceeds progress_interval, so every reading later than
\* that is kept as progress_interval + 1 ticks after previous_progress.
\* Neither the length of a run nor the number of its reports is bounded by
\* the clock
Receive ==
    /\ co.pc = "recv" /\ chan # <<>>
    /\ LET message == Head(chan)
       IN  /\ chan' = Tail(chan)
           /\ IF message.index * 4 + 4 <= Len(image)
              THEN /\ image' = copy_pixel(image, message.index, ColorBytes(message.color))
                   /\ writes' = [writes EXCEPT ![message.index] = @ + 1]
                   /\ \E now \in clock..(interval + 1) :
                         /\ clock' = now
                         /\ IF saturating_duration_since(now, co.previous_progress) > interval
                            THEN co' = [co EXCEPT !.pc = "read_lock",
                                                  !.thread_progress = <<>>]
                            ELSE UNCHANGED co
              ELSE \* slice index out of range: the coordinator panics
                   /\ co' = [co EXCEPT !.pc = "panic"]
                   /\ UNCHANGED <<image, writes, clock>>
    /\ UNCHANGED <<gen, K, interval, threads, reports, fn>>

\* the thread whose progress the coordinator reads next
Reading == Len(co.thread_progress)

\* thread.get_progress(): self.progress.read() waits while the worker holds
\* the write lock
ReadLock ==
    /\ co.pc = "read_lock"
    /\ threads[Reading].progress_lock = "free"
    /\ threads' = [threads EXCEPT ![Reading].progress_lock = "co"]
    /\ co' = [co EXCEPT !.pc = "read"]
    /\ UNCHANGED <<gen, K, interval, chan, image, writes, clock, reports, fn>>

\* the value is read, the guard is dropped and the value is pushed; after the
\* last thread the vector goes to the callback
ReadProgress ==
    /\ co.pc = "read"
    /\ threads' = [threads EXCEPT ![Reading].progress_lock = "free"]
    /\ co' = [co EXCEPT !.thread_progress = Append(@, get_progress(threads[Reading])),
                        !.pc = IF Reading + 1 < K THEN "read_lock" ELSE "report"]
    /\ UNCHANGED <<gen, K, interval, chan, image, writes, clock, reports, fn>>

\* progress_callback(thread_progress) without the assignment that follows it
ProgressCallbackStaleTime ==
    /\ co.pc = "report"
    /\ reports' = Append(reports, co.thread_progress)
    /\ co' = [co EXCEPT !.pc = "recv", !.thread_progress = <<>>]
    /\ UNCHANGED <<gen, K, interval, threads, chan, image, writes, clock, fn>>

\* progress_callback(thread_progress); previous_progress = now (the clock's
\* last reading is the now of this round): the origin of time moves to now,
\* which puts previous_progress and the last reading at 0
ProgressCallback ==
    /\ co.pc = "report"
    /\ reports' = Append(reports, co.thread_progress)
    /\ co' = [co EXCEPT !.pc = "recv", !.previous_progress = 0,
                        !.thread_progress = <<>>]
    /\ clock' = 0
    /\ UNCHANGED <<gen, K, interval, threads, chan, image, writes, fn>>

SendersHeld == {w \in Workers : threads[w].tx}

\* a loop end that turned a worker's panic into an error value
DisconnectedReportsPanic ==
    /\ co.pc = "recv" /\ chan = <<>>
    /\ ~co.tx /\ SendersHeld = {}
    /\ co' = [co EXCEPT !.pc = "done",
                        !.result = IF \E w \in Workers : threads[w].pc = "panicked"
                                   THEN Err("WorkerPanicked") ELSE Ok(image)]
    /\ UNCHANGED <<gen, K, interval, threads, chan, image, writes, clock, reports, fn>>

\* a loop end that hands a last progress vector to the callback
DisconnectedWithLastReport ==
    /\ co.pc = "recv" /\ chan = <<>>
    /\ ~co.tx /\ SendersHeld = {}
    /\ co' = [co EXCEPT !.pc = "done", !.result = Ok(image)]
    /\ reports' = Append(reports, [j \in 1..K |-> get_progress(threads[j - 1])])
    /\ UNCHANGED <<gen, K, interval, threads, chan, image, writes, clock, fn>>

\* rx yields None: the queue is empty and every sender has been dropped
Disconnected ==
    /\ co.pc = "recv" /\ chan = <<>>
    /\ ~co.tx /\ SendersHeld = {}
    /\ co' = [co EXCEPT !.pc = "done", !.result = Ok(image)]
    /\ UNCHANGED <<gen, K, interval, threads, chan, image, writes, clock, reports, fn>>

\* image_thread_func, loop body up to the send
WorkerSend(w) ==
    /\ threads[w].pc = "loop" /\ threads[w].i < threads[w].size
    /\ LET t == threads[w]
           index == pixel_index(t.i, t.skip, t.offset, t.size)
           p == pixel_xy(index, t.chunk_width)
       IN  chan' = Append(chan, [index |-> index, color |-> PixelColors[gen][p.x, p.y]])
    /\ threads' = [threads EXCEPT ![w].pc = "progress"]
    /\ UNCHANGED <<gen, K, interval, image, writes, co, clock, reports, fn>>

\* self.progress.write(): waits while the coordinator holds a read lock
WorkerLockProgress(w) ==
    /\ threads[w].pc = "progress"
    /\ threads[w].progress_lock = "free"
    /\ threads' = [threads EXCEPT ![w].progress_lock = "worker",
                                  ![w].pc = "store_progress"]
    /\ UNCHANGED <<gen, K, interval, chan, image, writes, co, clock, reports, fn>>

\* a progress write that counts the pixel of the next round as well
WorkerProgressAhead(w) ==
    /\ threads[w].pc = "store_progress"
    /\ threads' = [threads EXCEPT ![w].progress = Progress(threads[w].i + 2, threads[w].size),
                                  ![w].progress_lock = "free",
                                  ![w].i = @ + 1,
                                  ![w].pc = "loop"]
    /\ UNCHANGED <<gen, K, interval, chan, image, writes, co, clock, reports, fn>>

\* the store of (i + 1) / size through the write guard, which is dropped at
\* the end of the statement, and the next round
WorkerProgress(w) ==
    /\ threads[w].pc = "store_progress"
    /\ threads' = [threads EXCEPT ![w].progress = Progress(threads[w].i + 1, threads[w].size),
                                  ![w].progress_lock = "free",
                                  ![w].i = @ + 1,
                                  ![w].pc = "loop"]
    /\ UNCHANGED <<gen, K, interval, chan, image, writes, co, clock, reports, fn>>

\* a loop end that leaves the state as it is
WorkerFinishKeepsState(w) ==
    /\ threads[w].pc = "loop" /\ threads[w].i >= threads[w].size
    /\ threads[w].state_lock = "free"
    /\ threads' = [threads EXCEPT ![w].pc = "exit"]
    /\ UNCHANGED <<gen, K, interval, chan, image, writes, co, clock, reports, fn>>

\* the loop is over: *self.state.write() = Finished; the write lock is
\* waited for while start_generation still holds it, and nothing else takes
\* the state lock of a started thread, so lock, store and unlock are one step
WorkerFinish(w) ==
    /\ threads[w].pc = "loop" /\ threads[w].i >= threads[w].size
    /\ threads[w].state_lock = "free"
    /\ threads' = [threads EXCEPT ![w].state = "Finished", ![w].pc = "exit"]
    /\ UNCHANGED <<gen, K, interval, chan, image, writes, co, clock, reports, fn>>

\* image_thread_func returns: img_data, the worker's sender, is dropped
WorkerExit(w) ==
    /\ threads[w].pc = "exit"
    /\ threads' = [threads EXCEPT ![w].tx = FALSE, ![w].pc = "done"]
    /\ UNCHANGED <<gen, K, interval, chan, image, writes, co, clock, reports, fn>>

\* image_thread_func panics in the loop body before pixel i is sent (gen_pixel
\* or an unwrap): the thread unwinds, which drops img_data; the state stays
\* Running and the progress stays where it was
WorkerPanic(w) ==
    /\ threads[w].pc = "loop" /\ threads[w].i < threads[w].size
    /\ threads' = [threads EXCEPT ![w].tx = FALSE, ![w].pc = "panicked"]
    /\ UNCHANGED <<gen, K, interval, chan, image, writes, co, clock, reports, fn>>

Worker(w) ==
    \/ WorkerSend(w) \/ WorkerLockProgress(w) \/ WorkerProgress(w)
    \/ WorkerFinish(w) \/ WorkerExit(w)

Coordinator ==
    \/ StartGeneration \/ StoreHandle \/ ReturnFromStart
    \/ EndStartBlock \/ Allocate
    \/ Receive \/ ReadLock \/ ReadProgress \/ ProgressCallback \/ Disconnected

Next ==
    \/ StartGeneration
    \/ StoreHandle
    \/ ReturnFromStart
    \/ EndStartBlock
    \/ Allocate
    \/ Receive
    \/ ReadLock
    \/ ReadProgress
    \/ ProgressCallback
    \/ Disconnected
    \/ \E w \in Workers : WorkerSend(w)
    \/ \E w \in Workers : WorkerLockProgress(w)
    \/ \E w \in Workers : WorkerProgress(w)
    \/ \E w \in Workers : WorkerFinish(w)
    \/ \E w \in Workers : WorkerExit(w)

Spec == Init /\ [][Next]_vars

\* the runs checked for termination: a progress_interval of one tick, so that
\* the rounds of the receive loop with and without a report both occur
FairInit == Init /\ interval = 1

\* the operating system schedules every thread that can run
FairSpec ==
    /\ FairInit /\ [][Next]_vars
    /\ WF_vars(Coordinator)
    /\ \A w \in 0..(MaxK - 1) : WF_vars(w \in Workers /\ Worker(w))

\* the engine with worker threads that may panic
NextPanic ==
    \/ Next
    \/ \E w \in Workers : WorkerPanic(w)

SpecPanic == Init /\ [][NextPanic]_vars

-----------------------------------------------------------------------------
\* the indices worker w computes: size rounds of i * skip + offset
Assigned(w) ==
    {pixel_index(i, threads[w].skip, threads[w].offset, threads[w].size) :
        i \in 0..(threads[w].size - 1)}

\* the workers whose thread has been spawned
Started == {w \in Workers : threads[w].pc # "none"}

(* C1: every started worker w was given offset w, stride K and             *)
(* floor(N/K) + 1 indices when w < N mod K, floor(N/K) otherwise; the      *)
(* indices it computes are exactly the m < N with m mod K = w, so they are *)
(* all < N, two workers' index sets are disjoint, and once all K workers   *)
(* are started the sets cover 0..N-1.                                      *)
C1_InterleavedPartition ==
    /\ \A w \in Started :
          /\ threads[w].offset = w /\ threads[w].skip = K
          /\ threads[w].size =
                (PixelCount \div K) + (IF w < PixelCount % K THEN 1 ELSE 0)
          /\ Assigned(w) = {m \in 0..(PixelCount - 1) : m % K = w}
          /\ Cardinality(Assigned(w)) = threads[w].size
    /\ \A v, w \in Started : v # w => Assigned(v) \cap Assigned(w) = {}
    /\ Started = Workers => UNION {Assigned(w) : w \in Workers} = 0..(PixelCount - 1)

C1_Witness ==
    /\ Started = Workers
    /\ K = 2 /\ PixelCount = 3
    /\ Assigned(0) = {0, 2} /\ Assigned(1) = {1}

\* the pixel at byte offset 4 * (y * width + x) of the buffer
PixelAt(img, x, y) ==
    LET o == 4 * (y * Width + x) IN <<img[o + 1], img[o + 2], img[o + 3], img[o + 4]>>

(* C2: no message in flight carries an index outside 0..N-1 and the        *)
(* coordinator never writes outside the buffer; when generate_fractal has  *)
(* returned, every pixel index has been written exactly once and the four  *)
(* bytes at offset 4*(y*width+x) are gen_pixel(x, y), for every pixel.     *)
C2_EveryPixelOnce ==
    /\ \A k \in 1..Len(chan) : chan[k].index \in 0..(PixelCount - 1)
    /\ co.pc # "panic"
    /\ \A p \in 0..(PixelCount - 1) : writes[p] <= 1
    /\ co.pc = "done" =>
          /\ Len(image) = 4 * PixelCount
          /\ \A p \in 0..(PixelCount - 1) : writes[p] = 1
          /\ \A x \in 0..(Width - 1), y \in 0..(Height - 1) :
                PixelAt(image, x, y) = ColorBytes(gen_pixel(gen, x, y))

C2_Witness ==
    /\ co.pc = "done"
    /\ K = 2 /\ Width = 2 /\ Height = 1
    /\ PixelAt(image, 0, 0) # PixelAt(image, 1, 0)

\* the buffer a generator determines, whatever the worker count: byte b of
\* pixel index p is byte b of gen_pixel(p mod width, p div width)
ImageOf(g) ==
    [b \in 1..(4 * g.view.image_width * g.view.image_height) |->
        ColorBytes(gen_pixel(g, ((b - 1) \div 4) % g.view.image_width,
                                ((b - 1) \div 4) \div g.view.image_width))[((b - 1) % 4) + 1]]

(* C3: the buffer generate_fractal returns is determined by the generator  *)
(* and image size alone: for every worker count K and every interleaving   *)
(* of sends and receives it is the same byte sequence, so two runs that    *)
(* differ only in K or in scheduling return identical buffers.             *)
C3_SameBufferForEveryK ==
    co.pc = "done" => image = ImageOf(gen)

C3_Witness ==
    /\ co.pc = "done"
    /\ K = 2 /\ PixelCount = 3
    /\ image = ImageOf(gen)
    /\ \E k \in 1..Len(reports) : reports[k][1] = Progress(1, 2)

(* C4: under fair scheduling generate_fractal eventually returns; the      *)
(* receive loop never ends while the coordinator or a worker still holds a *)
(* sender or a message is queued, and it ends in the step in which the     *)
(* loop finds the queue empty with every sender dropped.                   *)
C4_EventuallyReturns ==
    /\ <>(co.pc = "done")
    /\ [](co.pc = "done" => ~co.tx /\ SendersHeld = {} /\ chan = <<>>)
    /\ [][co.pc # "done" /\ co'.pc = "done" =>
            co.pc = "recv" /\ ~co.tx /\ SendersHeld = {} /\ chan = <<>>]_vars

C4_Witness ==
    /\ co.pc = "done"
    /\ K = 2 /\ PixelCount = 1
    /\ \A w \in Workers : threads[w].pc = "done"

-----------------------------------------------------------------------------
\* the scenario of C7: 4x4 image, one iteration, Mandelbrot mode, plane width 4
C7_Scenario ==
    /\ fn.stage = "pixel_out"
    /\ fn.g.view = new_uniform(4, 4, FromInt(4))
    /\ fn.g.iterations = 1 /\ fn.g.mandelbrot
    /\ fn.x = 0 /\ fn.y = 0

(* C7: the original statement: in the scenario pixel (0,0) maps to         *)
(* (-2,-2), gen_value returns iteration count 0 without iterating, and     *)
(* gen_color takes the hue branch.                                         *)
C7_ImmediateEscape ==
    C7_Scenario =>
        /\ fn.loc = Cx(FromInt(-2), FromInt(-2))
        /\ fn.esc.n = 0
        /\ fn.branch = "hue"

(* C7 as amended: the view has start (-2,-2) and scale 1, pixel (0,0) maps *)
(* to (-2,-2); the first escape test is made on z = 0 and fails, one       *)
(* iteration is performed (z = c = (-2,-2), z_prev = 0) and the count      *)
(* handed to smooth is 1; with the count as value, gen_color takes the     *)
(* black branch (1 >= iterations) and returns (0,0,0,255).                 *)
C7_OneIterationBlack ==
    C7_Scenario =>
        /\ fn.g.view.plane_start_x = FromInt(-2) /\ fn.g.view.plane_start_y = FromInt(-2)
        /\ fn.g.view.image_scale_x = FromInt(1) /\ fn.g.view.image_scale_y = FromInt(1)
        /\ fn.loc = Cx(FromInt(-2), FromInt(-2))
        /\ fn.esc = [n |-> 1, z |-> Cx(FromInt(-2), FromInt(-2)),
                     z_prev |-> Cx(FromInt(0), FromInt(0))]
        /\ fn.value = 1
        /\ fn.branch = "black"
        /\ fn.color = RGBAColor(0, 0, 0, 255)

C7_Witness == C7_Scenario /\ fn.esc.n = 1 /\ fn.branch = "black"

\* the k-th iterate of z <- z*z + c from z0
RECURSIVE Orbit(_, _, _)
Orbit(z0, c, k) ==
    IF k = 0 THEN z0
    ELSE LET z == Orbit(z0, c, k - 1) IN CAdd(CMul(z, z), c)

Escaped(z, g) == DGt(norm_sqr(z), radius_squared(g.smoothing))

(* C8: gen_value iterates z <- z*z + c from z = 0, c = loc (Mandelbrot) or *)
(* z = loc, c = the constant (Julia); the count n is at most iterations,   *)
(* no escape test on the iterates before the n-th succeeded, and when      *)
(* n < iterations the test on the n-th iterate succeeded; smooth is passed *)
(* n, the n-th iterate and the iterate before the last performed step.     *)
C8_EscapeLoop ==
    fn.stage = "value_out" =>
        LET z0 == IF fn.g.mandelbrot THEN Cx(FromInt(0), FromInt(0)) ELSE fn.loc
            c  == IF fn.g.mandelbrot THEN fn.loc ELSE fn.g.c
            n  == fn.esc.n
        IN  /\ n \in 0..fn.g.iterations
            /\ \A k \in 0..(n - 1) : ~Escaped(Orbit(z0, c, k), fn.g)
            /\ n < fn.g.iterations => Escaped(Orbit(z0, c, n), fn.g)
            /\ fn.esc.z = Orbit(z0, c, n)
            /\ fn.esc.z_prev = Orbit(z0, c, IF n = 0 THEN 0 ELSE n - 1)
            /\ fn.value = smooth(fn.g.smoothing, n, fn.esc.z, fn.esc.z_prev)

C8_Witness ==
    /\ fn.stage = "value_out"
    /\ ~fn.g.mandelbrot
    /\ fn.esc.n = 2 /\ fn.g.iterations > 2
    /\ fn.esc.z # fn.esc.z_prev /\ fn.esc.z_prev # fn.loc

(* C9: gen_color returns opaque black (0,0,0,255) for every value >= the   *)
(* iteration cap and a hue-branch colour with alpha 255 for every value    *)
(* below it; the result is the same for every generator with the same cap, *)
(* whatever its mode, constant and smoothing.                              *)
C9_BlackAtCap ==
    fn.stage = "color_out" =>
        /\ fn.value >= fn.g.iterations =>
              fn.branch = "black" /\ fn.color = RGBAColor(0, 0, 0, 255)
        /\ fn.value < fn.g.iterations =>
              fn.branch = "hue" /\ fn.color.a = 255 /\ fn.color = hue_color(fn.value)
        /\ \A g2 \in Generators({fn.g.view}), policy \in {"None", "LogSmoothed"} :
              g2.iterations = fn.g.iterations =>
                 gen_color([g2 EXCEPT !.smoothing = policy], fn.value) = fn.color

C9_Witness ==
    /\ fn.stage = "color_out"
    /\ fn.value < fn.g.iterations
    /\ fn.color = RGBAColor(32, 5, 0, 255)

-----------------------------------------------------------------------------
(* The progress reports of one generate_fractal call.                      *)

\* a <= b for two progress fractions
ProgressLe(a, b) == a.num * b.den <= b.num * a.den

\* the progress of every worker as it stands in the current state
CurrentProgress == [w \in Workers |-> get_progress(threads[w])]

\* the vector of K entries in worker order (entry w + 1 for worker w) that
\* holds every worker's progress as it stands in the current state
CurrentProgressVector == [j \in 1..K |-> CurrentProgress[j - 1]]

(* C13: the original statement: every invocation of the progress callback  *)
(* comes more than progress_interval after the previous one (or after the  *)
(* start), and the vector it passes has K entries in worker order, the     *)
(* entry of worker w being the worker's latest progress value at the       *)
(* moment of the invocation.                                               *)
C13_LatestAtInvocation ==
    [][reports' # reports =>
          /\ saturating_duration_since(clock, co.previous_progress) > interval
          /\ reports' = Append(reports, CurrentProgressVector)]_vars

(* C13 as amended: an invocation comes more than progress_interval after   *)
(* the time kept in previous_progress, which every invocation sets to the  *)
(* time read in its round, and the time passed since previous_progress     *)
(* falls at no other step;                                                 *)
(* the vector passed has exactly K entries in worker order, entry w being  *)
(* the progress of worker w as the coordinator read it, under the worker's *)
(* progress lock, after it received the last pixel and before it invoked   *)
(* the callback; no entry is greater than the worker's progress at the     *)
(* moment of the invocation.                                               *)
C13_ReportedProgress ==
    [][/\ reports' # reports =>
            /\ saturating_duration_since(clock, co.previous_progress) > interval
            /\ co'.previous_progress = clock'
            /\ saturating_duration_since(clock', co'.previous_progress) = 0
            /\ reports' = Append(reports, co.thread_progress)
            /\ Len(co.thread_progress) = K
            /\ \A w \in Workers :
                  ProgressLe(co.thread_progress[w + 1], CurrentProgress[w])
       /\ saturating_duration_since(clock', co'.previous_progress)
              < saturating_duration_since(clock, co.previous_progress) =>
            reports' # reports
       /\ co'.thread_progress # co.thread_progress =>
            \/ co'.thread_progress = <<>> /\ co'.pc \in {"read_lock", "recv"}
            \/ /\ co.pc = "read" /\ threads[Reading].progress_lock = "co"
               /\ co'.thread_progress =
                     Append(co.thread_progress, CurrentProgress[Reading])]_vars

\* a second invocation is about to pass a vector whose entries were read at
\* different moments and that is behind the progress of a worker
C13_Witness ==
    /\ K = 2 /\ Len(reports) = 1
    /\ co.pc = "report"
    /\ interval = 1
    /\ saturating_duration_since(clock, co.previous_progress) = 2
    /\ co.thread_progress[1] # CurrentProgress[0]
    /\ co.thread_progress[2] = CurrentProgress[1]
    /\ threads[1].i > 0

-----------------------------------------------------------------------------
(* Worker threads that panic.                                              *)

\* the four bytes of pixel index p of a buffer
PixelBytes(img, p) == [b \in 1..4 |-> img[p * 4 + b]]

\* the workers that panicked before sending all of their pixels
PanickedEarly ==
    {w \in Workers : threads[w].pc = "panicked" /\ threads[w].i < threads[w].size}

\* the pixels a panicked worker never sent
Unsent(w) ==
    {pixel_index(i, threads[w].skip, threads[w].offset, threads[w].size) :
        i \in threads[w].i..(threads[w].size - 1)}

(* C14: once a worker has panicked before sending all of its assigned     *)
(* pixels, the coordinator stays blocked on the result channel and         *)
(* generate_fractal never returns; in particular it never returns an image *)
(* from which that worker's pixels are missing.                            *)
C14_BlocksForever == PanickedEarly # {} => co.pc # "done"

\* generate_fractal has returned after worker 0 panicked with one of its two
\* pixels sent: the panicking thread dropped its sender, the receive loop
\* ended, and the returned buffer holds zero bytes at the pixel never sent
C14_Witness ==
    /\ co.pc = "done"
    /\ K = 2 /\ PixelCount = 3
    /\ threads[0].pc = "panicked" /\ threads[0].i = 1
    /\ threads[1].pc = "done"
    /\ PixelBytes(image, 2) = <<0, 0, 0, 0>>
    /\ PixelBytes(image, 0) # <<0, 0, 0, 0>>

(* C15: generate_fractal returns no error value: whenever the call has     *)
(* returned, workers panicking or not, the result is Ok of the image       *)
(* buffer, the only value of the result type, and before the return there  *)
(* is no result.                                                           *)
C15_Infallible ==
    /\ co.pc = "done" =>
          /\ co.result = Ok(image)
          /\ co.result \in Results(image)
          /\ Results(image) = {Ok(image)}
    /\ co.pc # "done" => co.result = NoResult

C15_Witness ==
    /\ co.pc = "done"
    /\ co.result = Ok(image)
    /\ PanickedEarly = Workers /\ K = 2
    /\ \E w \in Workers : threads[w].i > 0

-----------------------------------------------------------------------------
(* approximate_path_length (src/src/path_util.rs, src/src/path_length.rs)  *)
(* on the events of a flattened path.  The points are corners of the       *)
(* 3 x 4 rectangle, so that every segment length is 0, 3, 4 or 5 and every *)
(* f32 operation is exact.                                                 *)

Point(x, y) == [x |-> x, y |-> y]

Corners == {Point(0, 0), Point(3, 0), Point(3, 4), Point(0, 4)}

\* sqrt of a perfect square
Sqrt(n) == CHOOSE r \in 0..n : r * r = n

\* (a - b).length()
VectorLength(a, b) == Sqrt((a.x - b.x) * (a.x - b.x) + (a.y - b.y) * (a.y - b.y))

\* lyon_path::Event, as path.iter().flattened(tolerance) yields them
EventBegin(at) == [type |-> "Begin", at |-> at]
EventLine(from, to) == [type |-> "Line", from |-> from, to |-> to]
EventEnd(last, first, close) ==
    [type |-> "End", last |-> last, first |-> first, close |-> close]

\* a path: its points in order; begin marks the first point of a sub-path and
\* close, on that point, whether the sub-path is closed
PathItems ==
    {it \in [at : Corners, begin : BOOLEAN, close : BOOLEAN] : it.close => it.begin}

Paths ==
    UNION {{p \in [1..n -> PathItems] : p[1].begin} : n \in 1..MaxPathPoints}

\* the first point of the sub-path that point k belongs to
SubPathStart(path, k) == CHOOSE j \in 1..k :
    path[j].begin /\ \A i \in (j + 1)..k : ~path[i].begin

\* point k is the last point of its sub-path
SubPathEnds(path, k) == k = Len(path) \/ path[k + 1].begin

\* the events of point k
EventsOfPoint(path, k) ==
    (IF path[k].begin
     THEN <<EventBegin(path[k].at)>>
     ELSE <<EventLine(path[k - 1].at, path[k].at)>>)
    \o (IF SubPathEnds(path, k)
        THEN <<EventEnd(path[k].at, path[SubPathStart(path, k)].at,
                        path[SubPathStart(path, k)].close)>>
        ELSE <<>>)

RECURSIVE EventsUpTo(_, _)
EventsUpTo(path, k) ==
    IF k = 0 THEN <<>> ELSE EventsUpTo(path, k - 1) \o EventsOfPoint(path, k)

\* path.iter().flattened(tolerance) of a path made of straight segments
Flattened(path) == EventsUpTo(path, Len(path))

\* a loop body that adds the closing segment of every sub-path
add_event_closing_always(length, event) ==
    CASE event.type = "Begin" -> length
      [] event.type = "Line" -> length + VectorLength(event.to, event.from)
      [] event.type \in {"Quadratic", "Cubic"} -> length
      [] event.type = "End" -> length + VectorLength(event.first, event.last)

\* the body of "for event in path.iter().flattened(tolerance)"
add_event(length, event) ==
    CASE event.type = "Begin" -> length
      [] event.type = "Line" -> length + VectorLength(event.to, event.from)
      [] event.type \in {"Quadratic", "Cubic"} -> length
      [] event.type = "End" ->
            IF event.close
            THEN length + VectorLength(event.first, event.last)
            ELSE length

InitPath ==
    /\ EngineIdle
    /\ \E path \in Paths :
          fn = [op |-> "approximate_path_length", path |-> path,
                events |-> Flattened(path), pos |-> 1, length |-> 0,
                stage |-> "loop", result |-> -1]

\* one round of the for loop
PathLengthEvent ==
    /\ fn.op = "approximate_path_length" /\ fn.stage = "loop"
    /\ fn.pos <= Len(fn.events)
    /\ fn' = [fn EXCEPT !.length = add_event(fn.length, fn.events[fn.pos]),
                        !.pos = @ + 1]
    /\ UNCHANGED engineVars

\* the loop is over: length is returned
PathLengthReturn ==
    /\ fn.op = "approximate_path_length" /\ fn.stage = "loop"
    /\ fn.pos > Len(fn.events)
    /\ fn' = [fn EXCEPT !.stage = "done", !.result = fn.length]
    /\ UNCHANGED engineVars

NextPath == PathLengthEvent \/ PathLengthReturn

SpecPath == InitPath /\ [][NextPath]_vars

\* the length of the segments that end at points 1..k, and of the closing
\* segments of the closed sub-paths that end there
RECURSIVE SegmentsUpTo(_, _)
SegmentsUpTo(path, k) ==
    IF k = 0 THEN 0
    ELSE SegmentsUpTo(path, k - 1)
         + (IF path[k].begin THEN 0 ELSE VectorLength(path[k].at, path[k - 1].at))
         + (IF SubPathEnds(path, k) /\ path[SubPathStart(path, k)].close
            THEN VectorLength(path[SubPathStart(path, k)].at, path[k].at)
            ELSE 0)

(* C12: approximate_path_length returns the sum of the lengths of all line *)
(* segments of the flattened path plus, once for each closed sub-path, the *)
(* length of the segment from its last point back to its first point, and  *)
(* nothing for an open sub-path; for the single segment (0,0)->(3,4) it    *)
(* returns 5.                                                              *)
C12_SumOfSegments ==
    (fn.op = "approximate_path_length" /\ fn.stage = "done") =>
        /\ fn.result = SegmentsUpTo(fn.path, Len(fn.path))
        /\ (/\ Len(fn.path) = 2
            /\ fn.path[1] = [at |-> Point(0, 0), begin |-> TRUE, close |-> FALSE]
            /\ fn.path[2] = [at |-> Point(3, 4), begin |-> FALSE, close |-> FALSE])
           => fn.result = 5

\* a closed triangle, 3 + 4 + 5, and the open single segment
C12_Witness ==
    /\ fn.op = "approximate_path_length" /\ fn.stage = "done"
    /\ Len(fn.path) = 3
    /\ fn.path[1] = [at |-> Point(0, 0), begin |-> TRUE, close |-> TRUE]
    /\ fn.path[2] = [at |-> Point(3, 0), begin |-> FALSE, close |-> FALSE]
    /\ fn.path[3] = [at |-> Point(3, 4), begin |-> FALSE, close |-> FALSE]
    /\ fn.result = 12

-----------------------------------------------------------------------------
(* CmdArgs::load (src/src/args.rs): the arguments are parsed one after the *)
(* other; an input says, for each argument, whether its parser accepts the *)
(* text given, and what happens to the parent directory of the output.     *)

\* the steps of load in program order: the option read, the name given to the
\* error constructor and the cause the constructor wraps
LoadSteps ==
    <<[option |-> "image_width", name |-> "image-width", cause |-> "ParseIntError"],
      [option |-> "image_height", name |-> "image-height", cause |-> "ParseIntError"],
      [option |-> "frames", name |-> "frames", cause |-> "ParseIntError"],
      [option |-> "plane_width", name |-> "plane-width", cause |-> "ParseFloatError"],
      [option |-> "output", name |-> "output", cause |-> "none"],
      [option |-> "path", name |-> "path", cause |-> "ParsePathError"],
      [option |-> "iterations", name |-> "iterations", cause |-> "ParseIntError"],
      [option |-> "fractal_progress_interval", name |-> "fractal-progress-interval",
       cause |-> "ParseIntError"],
      [option |-> "video_progress_interval", name |-> "video-progress-interval",
       cause |-> "ParseIntError"],
      [option |-> "time_base", name |-> "time-base", cause |-> "ParseRationalError"],
      [option |-> "path_tolerance", name |-> "path-tolerance", cause |-> "ParseFloatError"],
      [option |-> "smoothing", name |-> "smoothing", cause |-> "ParseSmoothingError"]>>

ParsedOptions == {LoadSteps[i].option : i \in 1..Len(LoadSteps)} \ {"output"}

\* the parent directory of the output: there is none or it exists, or
\* create_dir_all succeeds, or create_dir_all fails
ParentCases == {"exists", "created", "io_error"}

\* CmdArgsLoadError::from_int, from_float, from_path, from_rational,
\* from_smoothing
ParseError(argument, cause) ==
    [tag |-> "ParseError", argument |-> argument, cause |-> cause]

\* From<io::Error> for CmdArgsLoadError
IOError == [tag |-> "IOError"]

\* Ok(CmdArgs { .. })
OkCmdArgs(mandelbrot) == [tag |-> "Ok", mandelbrot |-> mandelbrot]

\* Display for CmdArgsLoadError
display(error) ==
    IF error.tag = "ParseError"
    THEN "Unable to parse --" \o error.argument \o " argument"
    ELSE "IO Error"

InitArgs ==
    /\ EngineIdle
    /\ \E accepts \in [ParsedOptions -> BOOLEAN], parent \in ParentCases,
          mandelbrot \in BOOLEAN :
          fn = [op |-> "load", accepts |-> accepts, parent |-> parent,
                mandelbrot |-> mandelbrot, pos |-> 1, parsed |-> <<>>,
                dir_created |-> FALSE, stage |-> "loading", result |-> NoResult]

\* a parse step that goes on after a failure
LoadParseIgnoresFailure ==
    /\ fn.op = "load" /\ fn.stage = "loading" /\ fn.pos <= Len(LoadSteps)
    /\ LoadSteps[fn.pos].option # "output"
    /\ fn' = [fn EXCEPT !.parsed = Append(@, LoadSteps[fn.pos].name), !.pos = @ + 1]
    /\ UNCHANGED engineVars

\* matches.value_of(option).unwrap().parse().map_err(..)?
LoadParse ==
    /\ fn.op = "load" /\ fn.stage = "loading" /\ fn.pos <= Len(LoadSteps)
    /\ LoadSteps[fn.pos].option # "output"
    /\ LET step == LoadSteps[fn.pos]
       IN  IF fn.accepts[step.option]
           THEN fn' = [fn EXCEPT !.parsed = Append(@, step.name), !.pos = @ + 1]
           ELSE fn' = [fn EXCEPT !.parsed = Append(@, step.name),
                                 !.stage = "returned",
                                 !.result = ParseError(step.name, step.cause)]
    /\ UNCHANGED engineVars

\* the parent directories of the output file are created if needed
LoadOutput ==
    /\ fn.op = "load" /\ fn.stage = "loading" /\ fn.pos <= Len(LoadSteps)
    /\ LoadSteps[fn.pos].option = "output"
    /\ fn' = CASE fn.parent = "exists" -> [fn EXCEPT !.pos = @ + 1]
               [] fn.parent = "created" ->
                     [fn EXCEPT !.pos = @ + 1, !.dir_created = TRUE]
               [] fn.parent = "io_error" ->
                     [fn EXCEPT !.stage = "returned", !.result = IOError]
    /\ UNCHANGED engineVars

\* the mandelbrot flag is read and Ok(CmdArgs { .. }) returned
LoadOk ==
    /\ fn.op = "load" /\ fn.stage = "loading" /\ fn.pos > Len(LoadSteps)
    /\ fn' = [fn EXCEPT !.stage = "returned", !.result = OkCmdArgs(fn.mandelbrot)]
    /\ UNCHANGED engineVars

NextArgs == LoadParse \/ LoadOutput \/ LoadOk

SpecArgs == InitArgs /\ [][NextArgs]_vars

\* the order of the arguments
ArgumentOrder ==
    <<"image-width", "image-height", "frames", "plane-width", "path", "iterations",
      "fractal-progress-interval", "video-progress-interval", "time-base",
      "path-tolerance", "smoothing">>

\* the option that holds the text of an argument
OptionOf(name) ==
    LoadSteps[CHOOSE i \in 1..Len(LoadSteps) : LoadSteps[i].name = name].option

(* C18: the arguments are parsed in the order image-width, image-height,   *)
(* frames, plane-width, path, iterations, fractal-progress-interval,       *)
(* video-progress-interval, time-base, path-tolerance, smoothing; when the *)
(* parse of one fails, load returns at once a ParseError whose argument is *)
(* the name of that argument: every argument before it was parsed and      *)
(* accepted, no later one is parsed, no CmdArgs value is produced and the  *)
(* error displays as "Unable to parse --<name> argument".  A CmdArgs value *)
(* is returned only when every argument was parsed and accepted.           *)
C18_FirstParseFailure ==
    fn.op = "load" =>
        /\ \E n \in 0..Len(ArgumentOrder) : fn.parsed = SubSeq(ArgumentOrder, 1, n)
        /\ \A k \in 1..Len(fn.parsed) :
              ~fn.accepts[OptionOf(fn.parsed[k])] =>
                  /\ k = Len(fn.parsed)
                  /\ fn.stage = "returned"
                  /\ fn.result.tag = "ParseError"
                  /\ fn.result.argument = ArgumentOrder[k]
                  /\ display(fn.result) =
                        "Unable to parse --" \o ArgumentOrder[k] \o " argument"
        /\ (fn.stage = "returned" /\ fn.result.tag = "ParseError") =>
              /\ fn.parsed # <<>>
              /\ fn.result.argument = fn.parsed[Len(fn.parsed)]
              /\ ~fn.accepts[OptionOf(fn.result.argument)]
        /\ (fn.stage = "returned" /\ fn.result.tag = "Ok") =>
              /\ fn.parsed = ArgumentOrder
              /\ \A o \in ParsedOptions : fn.accepts[o]
        /\ fn.stage = "loading" => fn.result = NoResult

\* iterations is the first argument that fails, time-base would fail too
C18_Witness ==
    /\ fn.op = "load" /\ fn.stage = "returned"
    /\ fn.result = ParseError("iterations", "ParseIntError")
    /\ ~fn.accepts["time_base"]
    /\ fn.dir_created
    /\ Len(fn.parsed) = 6

-----------------------------------------------------------------------------
(* The animation driver (src/src/main.rs): render_julia and                *)
(* render_mandelbrot hand one frame to the encoder for every position the  *)
(* path walker gives to their callback, and main finishes the media file.  *)

None == [some |-> FALSE, value |-> 0]
Some(v) == [some |-> TRUE, value |-> v]

FractalValues_new(image_width, image_height, plane_width, iterations) ==
    LET image_scale == DDiv(plane_width, FromInt(image_width))
        plane_height == DMul(FromInt(image_height), image_scale)
    IN  [image_width |-> image_width,
         image_height |-> image_height,
         plane_width |-> plane_width,
         plane_height |-> plane_height,
         image_scale |-> image_scale,
         plane_start_x |-> DDiv(DNeg(plane_width), FromInt(2)),
         plane_start_y |-> DDiv(DNeg(plane_height), FromInt(2)),
         iterations |-> iterations]

\* one component of FractalValues::get_pixel_coordinates
FractalValues_axis(plane, start, extent, scale) ==
    IF DGt(plane, start) /\ DLt(plane, DAdd(start, extent))
    THEN Some(TruncDivU32(DSub(plane, start), scale))
    ELSE None

FractalValues_get_pixel_coordinates(vals, plane_coordinates) ==
    [x |-> FractalValues_axis(plane_coordinates.re, vals.plane_start_x,
                              vals.plane_width, vals.image_scale),
     y |-> FractalValues_axis(plane_coordinates.im, vals.plane_start_y,
                              vals.plane_height, vals.image_scale)]

\* draw_crosshair: the row pixel_y and the column pixel_x are set to 0xFF
draw_crosshair(img, vals, crosshair_coordinates) ==
    LET pixel == FractalValues_get_pixel_coordinates(vals, crosshair_coordinates)
    IN  [b \in 1..Len(img) |->
            LET x == ((b - 1) \div 4) % vals.image_width
                y == ((b - 1) \div 4) \div vals.image_width
            IN  IF \/ pixel.y.some /\ y = pixel.y.value
                   \/ pixel.x.some /\ x = pixel.x.value
                THEN 255
                ELSE img[b]]

\* ValueGenerator::new of src/src/generator.rs, the constructor whose seven
\* parameters the calls of main.rs have
ValueGenerator_new(img_scale_x, img_scale_y, plane_zero_x, plane_zero_y, mandelbrot, iterations, c) ==
    [img_scale_x |-> img_scale_x, img_scale_y |-> img_scale_y,
     plane_zero_x |-> plane_zero_x, plane_zero_y |-> plane_zero_y,
     mandelbrot |-> mandelbrot, iterations |-> iterations, c |-> c]

\* gen_pixel_value, gen_pixel of src/src/generator.rs
gen_pixel_value_polling(g, x, y) ==
    gen_value_polling(g, Cx(DAdd(DMul(FromInt(x), g.img_scale_x), g.plane_zero_x),
                            DAdd(DMul(FromInt(y), g.img_scale_y), g.plane_zero_y))).n

gen_pixel_polling(g, x, y) ==
    CHOOSE r \in {gen_color(g, value) :
                    value \in {gen_pixel_value_polling(g, x, y)}} : TRUE

\* image_thread_func of src/src/generator.rs: the size pixels of one chunk,
\* pixel i at x = i % chunk_width, y = i / chunk_width of the sub-generator
image_thread_func(chunk_width, size, g) ==
    [b \in 1..(size * 4) |->
        ColorBytes(gen_pixel_polling(g, ((b - 1) \div 4) % chunk_width,
                                        ((b - 1) \div 4) \div chunk_width))[((b - 1) % 4) + 1]]

\* generate_fractal of src/src/generator.rs, the threads index.. on: thread
\* index computes chunk_height rows from row offset on, with plane_zero_y
\* moved by offset rows, and the chunks are copied into the image in thread
\* order
RECURSIVE ChunksFrom(_, _, _, _, _, _)
ChunksFrom(g, width, height, num_threads, index, offset) ==
    IF index >= num_threads
    THEN <<>>
    ELSE LET sub_generator ==
                 [g EXCEPT !.plane_zero_y =
                               DAdd(@, DMul(FromInt(offset), g.img_scale_y))]
             chunk_rows == height \div num_threads
                             + (IF index < height % num_threads THEN 1 ELSE 0)
         IN  image_thread_func(width, chunk_rows * width, sub_generator)
               \o ChunksFrom(g, width, height, num_threads, index + 1,
                             offset + chunk_rows)

\* the buffer generate_fractal returns
generate_fractal(g, width, height, num_threads) ==
    ChunksFrom(g, width, height, num_threads, 0, 0)

\* ValueGenerator::new(vals.image_scale, vals.image_scale, vals.plane_start_x,
\* vals.plane_start_y, mandelbrot, vals.iterations, c)
DriverGenerator(vals, mandelbrot, c) ==
    ValueGenerator_new(vals.image_scale, vals.image_scale, vals.plane_start_x,
                       vals.plane_start_y, mandelbrot, vals.iterations, c)

\* the fractal_arguments of the renders: a 2 x 2 image of the plane square
\* of width 4
DriverValues == FractalValues_new(2, 2, FromInt(4), MaxIter)

\* the positions the walker hands to the callback: inside pixel (0, 0),
\* inside pixel (1, 1), and right of the image in row 1
Positions == {Cx(FromInt(-1), FromInt(-1)), Cx(FromInt(0), FromInt(0)),
              Cx(FromInt(3), FromInt(1))}

SamplePaths == UNION {[1..n -> Positions] : n \in 0..MaxFrames}

\* num_cpus::get() + 2, for 1..MaxK processors
DriverThreads == {cpus + 2 : cpus \in 1..MaxK}

\* generate_fractal of the Mandelbrot generator and of the Julia generator of
\* every position, for every number of threads, tabulated once
MandelbrotImages ==
    [n \in DriverThreads |->
        generate_fractal(DriverGenerator(DriverValues, TRUE, Cx(FromInt(0), FromInt(0))),
                         DriverValues.image_width, DriverValues.image_height, n)]

JuliaImagesOf ==
    [n \in DriverThreads |->
        [c \in Positions |->
            generate_fractal(DriverGenerator(DriverValues, FALSE, c),
                             DriverValues.image_width, DriverValues.image_height, n)]]

\* the images of the render under way
MandelbrotImage == MandelbrotImages[fn.num_threads]

JuliaImages == JuliaImagesOf[fn.num_threads]

NoImage == <<>>

\* main after media_out.start(): the render to run and what the walker will
\* hand to its callback
InitRender ==
    /\ EngineIdle
    /\ \E mandelbrot \in BOOLEAN, samples \in SamplePaths,
          video_progress_interval \in {0, 1}, num_threads \in DriverThreads :
          fn = [op |-> "render", mandelbrot |-> mandelbrot, samples |-> samples,
                video_progress_interval |-> video_progress_interval,
                num_threads |-> num_threads,
                vals |-> DriverValues, pc |-> "start", position |-> 0,
                mandelbrot_image |-> NoImage, current_image |-> NoImage,
                frame |-> [pts |-> None, data |-> NoImage], frame_num |-> 0,
                generate_calls |-> 0, running |-> FALSE, write_calls |-> <<>>,
                now |-> 0, previous_progress |-> 0, video_reports |-> <<>>,
                trailer |-> FALSE]

\* the head of render_mandelbrot, up to the start of the threads of
\* generate_fractal, or the head of render_julia, up to the construction of
\* the pattern
RenderStart ==
    /\ fn.op = "render" /\ fn.pc = "start"
    /\ fn' = IF fn.mandelbrot
             THEN [fn EXCEPT !.pc = "generate", !.generate_calls = @ + 1,
                             !.running = TRUE]
             ELSE [fn EXCEPT !.pc = "walk", !.previous_progress = fn.now]
    /\ UNCHANGED engineVars

\* one round of the polling loop of generate_fractal: the progress and the
\* state of every thread are read, progress_callback is called and the
\* coordinator sleeps; the round finds a thread still Running or none.  The
\* number of rounds of a call is up to the scheduler and is not bounded: a
\* round that finds a thread Running leaves the call where it was
GeneratePoll ==
    /\ fn.op = "render" /\ fn.pc = "generate" /\ fn.running
    /\ \E running \in BOOLEAN : fn' = [fn EXCEPT !.running = running]
    /\ UNCHANGED engineVars

\* generate_fractal returns the assembled image: the base image of
\* render_mandelbrot, after which the frame is made and the time is read, or
\* the Julia set of the position in render_julia's callback
GenerateReturn ==
    /\ fn.op = "render" /\ fn.pc = "generate" /\ ~fn.running
    /\ fn' = IF fn.mandelbrot
             THEN [fn EXCEPT !.pc = "walk",
                             !.mandelbrot_image = MandelbrotImage,
                             !.previous_progress = fn.now]
             ELSE [fn EXCEPT !.pc = "copy",
                             !.current_image = JuliaImages[fn.samples[fn.position]]]
    /\ UNCHANGED engineVars

\* the walker calls the callback with the next position:
\* frame.set_pts(Some(frame_num as i64))
CallbackSetPts ==
    /\ fn.op = "render" /\ fn.pc = "walk" /\ fn.position < Len(fn.samples)
    /\ fn' = [fn EXCEPT !.pc = "image", !.position = @ + 1,
                        !.frame.pts = Some(fn.frame_num)]
    /\ UNCHANGED engineVars

\* a frame image drawn on the base image itself
CallbackImageInPlace ==
    /\ fn.op = "render" /\ fn.pc = "image"
    /\ LET position == fn.samples[fn.position]
       IN  fn' = IF fn.mandelbrot
                 THEN [fn EXCEPT !.pc = "copy",
                          !.mandelbrot_image =
                              draw_crosshair(fn.mandelbrot_image, fn.vals, position),
                          !.current_image =
                              draw_crosshair(fn.mandelbrot_image, fn.vals, position)]
                 ELSE [fn EXCEPT !.pc = "generate", !.generate_calls = @ + 1,
                                 !.running = TRUE]
    /\ UNCHANGED engineVars

\* the image of the frame: a clone of mandelbrot_image with the crosshair
\* drawn on it, or the start of the generate_fractal call of the position
CallbackImage ==
    /\ fn.op = "render" /\ fn.pc = "image"
    /\ LET position == fn.samples[fn.position]
       IN  fn' = IF fn.mandelbrot
                 THEN [fn EXCEPT !.pc = "copy",
                          !.current_image =
                              draw_crosshair(fn.mandelbrot_image, fn.vals, position)]
                 ELSE [fn EXCEPT !.pc = "generate", !.generate_calls = @ + 1,
                                 !.running = TRUE]
    /\ UNCHANGED engineVars

\* frame.data_mut(0).copy_from_slice(..)
CallbackCopy ==
    /\ fn.op = "render" /\ fn.pc = "copy"
    /\ fn' = [fn EXCEPT !.pc = "write", !.frame.data = fn.current_image]
    /\ UNCHANGED engineVars

\* the record of one write_frame call
WriteCall(frame, outcome, generate_calls) ==
    [pts |-> frame.pts, data |-> frame.data, outcome |-> outcome,
     generate_calls |-> generate_calls]

WriteOutcomes == {"PacketWritten", "NoPacketWritten", "Err"}

\* a write_frame whose error is dropped
CallbackWriteFrameGoesOn ==
    /\ fn.op = "render" /\ fn.pc = "write"
    /\ \E outcome \in WriteOutcomes :
          fn' = [fn EXCEPT
                    !.write_calls =
                        Append(@, WriteCall(fn.frame, outcome, fn.generate_calls)),
                    !.pc = "progress"]
    /\ UNCHANGED engineVars

\* media_out.write_frame(&frame).expect("Unable to write frame"): an Err
\* panics
CallbackWriteFrame ==
    /\ fn.op = "render" /\ fn.pc = "write"
    /\ \E outcome \in WriteOutcomes :
          fn' = [fn EXCEPT
                    !.write_calls =
                        Append(@, WriteCall(fn.frame, outcome, fn.generate_calls)),
                    !.pc = IF outcome = "Err" THEN "panicked" ELSE "progress"]
    /\ UNCHANGED engineVars

\* a callback end that leaves frame_num alone
CallbackProgressKeepsFrameNum ==
    /\ fn.op = "render" /\ fn.pc = "progress"
    /\ \E now \in fn.now..(fn.video_progress_interval + 1) :
          fn' = IF saturating_duration_since(now, fn.previous_progress)
                      > fn.video_progress_interval
                THEN [fn EXCEPT !.pc = "walk", !.now = 0,
                                !.video_reports = Append(@, fn.frame_num),
                                !.previous_progress = 0]
                ELSE [fn EXCEPT !.pc = "walk", !.now = now]
    /\ UNCHANGED engineVars

\* the video progress report when it is due, frame_num += 1, and the
\* callback returns true.  Time is counted from the instant last assigned to
\* previous_progress, as in the engine: previous_progress = now moves the
\* origin to now, and a reading more than video_progress_interval after
\* previous_progress is kept as video_progress_interval + 1 ticks, so the
\* number of reports is not bounded by the clock
CallbackProgress ==
    /\ fn.op = "render" /\ fn.pc = "progress"
    /\ \E now \in fn.now..(fn.video_progress_interval + 1) :
          fn' = IF saturating_duration_since(now, fn.previous_progress)
                      > fn.video_progress_interval
                THEN [fn EXCEPT !.pc = "walk", !.now = 0,
                                !.video_reports = Append(@, fn.frame_num),
                                !.previous_progress = 0,
                                !.frame_num = @ + 1]
                ELSE [fn EXCEPT !.pc = "walk", !.now = now, !.frame_num = @ + 1]
    /\ UNCHANGED engineVars

\* the walk is over and the render returns:
\* media_out.finish().expect("Error finishing writing media file")
Finish ==
    /\ fn.op = "render" /\ fn.pc = "walk" /\ fn.position = Len(fn.samples)
    /\ \/ fn' = [fn EXCEPT !.pc = "done", !.trailer = TRUE]
       \/ fn' = [fn EXCEPT !.pc = "panicked"]
    /\ UNCHANGED engineVars

NextRender ==
    \/ RenderStart
    \/ GeneratePoll
    \/ GenerateReturn
    \/ CallbackSetPts
    \/ CallbackImage
    \/ CallbackCopy
    \/ CallbackWriteFrame
    \/ CallbackProgress
    \/ Finish

SpecRender == InitRender /\ [][NextRender]_vars

\* the buffer of the frame of the i-th position, assembled
FrameImage(i) ==
    IF fn.mandelbrot
    THEN draw_crosshair(MandelbrotImage, fn.vals, fn.samples[i])
    ELSE JuliaImages[fn.samples[i]]

(* C16: in render_julia and render_mandelbrot the i-th call of write_frame *)
(* (i from 1) passes the frame of the i-th position, with presentation     *)
(* timestamp i - 1 and the fully assembled buffer of that position; the    *)
(* timestamps are strictly increasing, there is at most one call per       *)
(* position and exactly one per position when the render is done; a call   *)
(* is made only after every earlier frame was written and, in Julia mode,  *)
(* after exactly i generate_fractal calls have returned.                   *)
C16_FramesInOrder ==
    fn.op = "render" =>
        /\ \A i \in 1..Len(fn.write_calls) :
              /\ fn.write_calls[i].pts = Some(i - 1)
              /\ fn.write_calls[i].data = FrameImage(i)
              /\ ~fn.mandelbrot => fn.write_calls[i].generate_calls = i
              /\ i < Len(fn.write_calls) => fn.write_calls[i].outcome # "Err"
        /\ \A i, j \in 1..Len(fn.write_calls) :
              i < j => fn.write_calls[i].pts.value < fn.write_calls[j].pts.value
        /\ Len(fn.write_calls) <= Len(fn.samples)
        /\ fn.pc = "done" => Len(fn.write_calls) = Len(fn.samples)
        /\ fn.pc = "write" =>
              /\ Len(fn.write_calls) = fn.frame_num
              /\ fn.position = fn.frame_num + 1
              /\ fn.frame = [pts |-> Some(fn.frame_num), data |-> FrameImage(fn.position)]

C16_Witness ==
    /\ fn.op = "render" /\ fn.pc = "done" /\ ~fn.mandelbrot
    /\ Len(fn.write_calls) = 2
    /\ fn.write_calls[1].data # fn.write_calls[2].data
    /\ fn.write_calls[2].pts = Some(1)

(* C17: when a write_frame call fails, it is the last write_frame call of  *)
(* the render: the frame callback panics, so the write is not repeated, no *)
(* later position is taken from the walker, no generate_fractal call is    *)
(* made afterwards and finish is not performed.                            *)
C17_WriteFailureAborts ==
    fn.op = "render" =>
        \A i \in 1..Len(fn.write_calls) :
            fn.write_calls[i].outcome = "Err" =>
                /\ i = Len(fn.write_calls)
                /\ fn.pc = "panicked"
                /\ fn.position = i /\ fn.frame_num = i - 1
                /\ fn.generate_calls = fn.write_calls[i].generate_calls
                /\ ~fn.trailer

C17_Witness ==
    /\ fn.op = "render" /\ ~fn.mandelbrot
    /\ Len(fn.samples) = 2
    /\ Len(fn.write_calls) = 1 /\ fn.write_calls[1].outcome = "Err"
    /\ fn.generate_calls = 1
    /\ fn.pc = "panicked"

\* the bytes of a frame buffer that differ from the base image
Overlay(img) == {b \in 1..Len(img) : img[b] # MandelbrotImage[b]}

(* C20: in Mandelbrot mode generate_fractal is called exactly once, before *)
(* the first frame; the buffer of every frame is the base image with the   *)
(* crosshair of the frame's own position drawn on it, so that it differs   *)
(* from the base image only on that crosshair, and the cached base image   *)
(* is the same after every frame.                                          *)
C20_BaseImageKept ==
    (fn.op = "render" /\ fn.mandelbrot) =>
        /\ fn.generate_calls = IF fn.pc = "start" THEN 0 ELSE 1
        /\ fn.pc \in {"start", "generate"} =>
              /\ fn.write_calls = <<>> /\ fn.position = 0
              /\ fn.mandelbrot_image = NoImage
        /\ fn.pc \notin {"start", "generate"} =>
              fn.mandelbrot_image = MandelbrotImage
        /\ \A i \in 1..Len(fn.write_calls) :
              /\ fn.write_calls[i].data =
                    draw_crosshair(MandelbrotImage, fn.vals, fn.samples[i])
              /\ Overlay(fn.write_calls[i].data) \subseteq
                    Overlay(draw_crosshair(MandelbrotImage, fn.vals, fn.samples[i]))
              /\ fn.write_calls[i].generate_calls = 1

\* the crosshair of the first frame covers pixel (0, 0); in the second frame
\* that pixel is the base image's again
C20_Witness ==
    /\ fn.op = "render" /\ fn.mandelbrot /\ fn.pc = "done"
    /\ Len(fn.write_calls) = 2
    /\ PixelBytes(fn.write_calls[1].data, 0) = <<255, 255, 255, 255>>
    /\ PixelBytes(fn.write_calls[2].data, 0) = PixelBytes(MandelbrotImage, 0)
    /\ PixelBytes(MandelbrotImage, 0) # <<255, 255, 255, 255>>
    /\ PixelBytes(fn.write_calls[2].data, 3) = <<255, 255, 255, 255>>

-----------------------------------------------------------------------------
(* f64 with rounding.  A finite non-zero f64 is a sign, its 53-bit         *)
(* significand m and the exponent e of the last bit of m: the value is     *)
(* (+/-) m * 2^e.  Significands and the exact results of the operations    *)
(* are natural numbers of any size, written as sequences of 15-bit limbs,  *)
(* most significant limb first; every operation computes the exact result  *)
(* and rounds it to 53 bits, ties to even, as the IEEE 754 operations of   *)
(* the code do.  The inputs are far from the overflow and underflow        *)
(* thresholds.                                                             *)

Precision == 53
LimbBits == 15
LimbBase == 32768

\* the limbs of a natural number, none for 0
RECURSIVE LimbsOfNat(_)
LimbsOfNat(n) ==
    IF n = 0 THEN <<>> ELSE Append(LimbsOfNat(n \div LimbBase), n % LimbBase)

\* a limb sequence without its leading zero limbs
RECURSIVE Strip(_)
Strip(a) == IF a # <<>> /\ a[1] = 0 THEN Strip(Tail(a)) ELSE a

\* a limb sequence extended by leading zero limbs to k limbs
PadTo(a, k) == [i \in 1..(k - Len(a)) |-> 0] \o a

LongerLen(a, b) == IF Len(a) > Len(b) THEN Len(a) ELSE Len(b)

\* a < b, a = b or a > b
LimbsCompare(a, b) ==
    LET k == LongerLen(a, b)
        x == PadTo(a, k)
        y == PadTo(b, k)
        d == {i \in 1..k : x[i] # y[i]}
    IN  IF d = {} THEN "eq"
        ELSE LET i == CHOOSE j \in d : \A l \in d : j <= l
             IN  IF x[i] < y[i] THEN "lt" ELSE "gt"

\* the limbs 1..i of x + y and the carry out of them, x and y of one length
RECURSIVE AddFrom(_, _, _, _)
AddFrom(x, y, i, carry) ==
    IF i = 0 THEN (IF carry = 1 THEN <<1>> ELSE <<>>)
    ELSE LET t == x[i] + y[i] + carry
         IN  Append(AddFrom(x, y, i - 1, t \div LimbBase), t % LimbBase)

LimbsAdd(a, b) ==
    LET k == LongerLen(a, b) IN AddFrom(PadTo(a, k), PadTo(b, k), k, 0)

\* x - y for x >= y, x and y of one length
RECURSIVE SubFrom(_, _, _, _)
SubFrom(x, y, i, borrow) ==
    IF i = 0 THEN <<>>
    ELSE LET t == x[i] - y[i] - borrow
         IN  Append(SubFrom(x, y, i - 1, IF t < 0 THEN 1 ELSE 0),
                    IF t < 0 THEN t + LimbBase ELSE t)

LimbsSub(a, b) ==
    LET k == LongerLen(a, b) IN Strip(SubFrom(PadTo(a, k), PadTo(b, k), k, 0))

\* k times x, k < LimbBase
RECURSIVE MulFrom(_, _, _, _)
MulFrom(x, k, i, carry) ==
    IF i = 0 THEN LimbsOfNat(carry)
    ELSE LET t == x[i] * k + carry
         IN  Append(MulFrom(x, k, i - 1, t \div LimbBase), t % LimbBase)

LimbsMul(a, k) == Strip(MulFrom(a, k, Len(a), 0))

\* long division of the limbs 1..i of x by d, 0 < d < LimbBase: quotient and
\* remainder
RECURSIVE DivFrom(_, _, _)
DivFrom(x, d, i) ==
    IF i = 0 THEN [q |-> <<>>, r |-> 0]
    ELSE LET prev == DivFrom(x, d, i - 1)
             t == prev.r * LimbBase + x[i]
         IN  [q |-> Append(prev.q, t \div d), r |-> t % d]

LimbsDiv(a, d) ==
    LET res == DivFrom(a, d, Len(a)) IN [q |-> Strip(res.q), r |-> res.r]

\* the number of bits of a limb and of a limb sequence without leading zeros
LimbLength(x) == CHOOSE k \in 0..LimbBits : x < Pow2[k] /\ (k = 0 \/ x >= Pow2[k - 1])

BitLength(a) == IF a = <<>> THEN 0 ELSE LimbBits * (Len(a) - 1) + LimbLength(a[1])

\* a * 2^s
ShiftLeft(a, s) ==
    LimbsMul(a, Pow2[s % LimbBits]) \o [i \in 1..(s \div LimbBits) |-> 0]

\* floor(a / 2^s), and whether a non-zero bit was shifted out
ShiftRight(a, s) ==
    LET whole == s \div LimbBits
        keep == IF whole >= Len(a) THEN <<>> ELSE SubSeq(a, 1, Len(a) - whole)
        lost == \E i \in 1..Len(a) : i > Len(a) - whole /\ a[i] # 0
        res == LimbsDiv(keep, Pow2[s % LimbBits])
    IN  [q |-> res.q, sticky |-> lost \/ res.r # 0]

IsOdd(a) == a # <<>> /\ a[Len(a)] % 2 = 1

F64Zero == [neg |-> FALSE, m |-> <<>>, e |-> 0]

\* the f64 nearest to (+/-) a * 2^e, ties to even; sticky says that the
\* exact value has further non-zero bits below a
RoundF64(neg, a, e, sticky) ==
    LET n == Strip(a)
        len == BitLength(n)
    IN  IF len = 0 THEN F64Zero
        ELSE IF len <= Precision
        THEN [neg |-> neg, m |-> ShiftLeft(n, Precision - len),
              e |-> e - (Precision - len)]
        ELSE LET s == len - Precision
                 above == ShiftRight(n, s - 1)
                 guard == IsOdd(above.q)
                 kept == ShiftRight(above.q, 1).q
                 up == guard /\ (sticky \/ above.sticky \/ IsOdd(kept))
                 r == IF up THEN LimbsAdd(kept, <<1>>) ELSE kept
             IN  IF BitLength(r) > Precision
                 THEN [neg |-> neg, m |-> ShiftRight(r, 1).q, e |-> e + s + 1]
                 ELSE [neg |-> neg, m |-> r, e |-> e + s]

\* a u32 "as f64", and the f64 of a dyadic number n / 2^sh with a small n
F64OfNat(n) == RoundF64(FALSE, LimbsOfNat(n), 0, FALSE)

F64OfDyadic(a) ==
    RoundF64(a.n < 0, LimbsOfNat(IF a.n < 0 THEN -a.n ELSE a.n), -a.sh, FALSE)

F64Neg(f) == IF f.m = <<>> THEN f ELSE [f EXCEPT !.neg = ~f.neg]

\* f / 2
F64Half(f) == IF f.m = <<>> THEN f ELSE [f EXCEPT !.e = @ - 1]

\* f / d for a natural number 0 < d < 2^13: the quotient of the significand
\* extended by one limb, which has at least 55 bits
F64DivNat(f, d) ==
    IF f.m = <<>> THEN f
    ELSE LET res == LimbsDiv(Append(f.m, 0), d)
         IN  RoundF64(f.neg, res.q, f.e - LimbBits, res.r # 0)

\* k * f for a natural number k < LimbBase
F64MulNat(k, f) ==
    IF f.m = <<>> \/ k = 0 THEN F64Zero
    ELSE RoundF64(f.neg, LimbsMul(f.m, k), f.e, FALSE)

\* f + g
F64Add(f, g) ==
    IF f.m = <<>> THEN g
    ELSE IF g.m = <<>> THEN f
    ELSE LET e == IF f.e < g.e THEN f.e ELSE g.e
             x == ShiftLeft(f.m, f.e - e)
             y == ShiftLeft(g.m, g.e - e)
             c == LimbsCompare(x, y)
         IN  IF f.neg = g.neg THEN RoundF64(f.neg, LimbsAdd(x, y), e, FALSE)
             ELSE IF c = "eq" THEN F64Zero
             ELSE IF c = "gt" THEN RoundF64(f.neg, LimbsSub(x, y), e, FALSE)
             ELSE RoundF64(g.neg, LimbsSub(y, x), e, FALSE)

\* |f| <= |g|
F64MagLe(f, g) ==
    IF f.m = <<>> THEN TRUE
    ELSE IF g.m = <<>> THEN FALSE
    ELSE f.e < g.e \/ (f.e = g.e /\ LimbsCompare(f.m, g.m) # "gt")

\* f > 0
F64Positive(f) == f.m # <<>> /\ ~f.neg

-----------------------------------------------------------------------------
(* View::new_uniform and View::get_plane_coordinates with rounded f64      *)
(* arithmetic (src/src/generator/view.rs).                                 *)

\* a non-uniform view whose plane_start_y is taken from the plane width
View_new_uniform_square(image_width, image_height, plane_width) ==
    LET image_scale == F64DivNat(plane_width, image_width)
    IN  [image_width |-> image_width,
         image_height |-> image_height,
         image_scale_x |-> image_scale,
         image_scale_y |-> image_scale,
         plane_start_x |-> F64Half(F64Neg(plane_width)),
         plane_start_y |-> F64Half(F64Neg(plane_width))]

View_new_uniform(image_width, image_height, plane_width) ==
    LET image_scale == F64DivNat(plane_width, image_width)
        plane_height == F64MulNat(image_height, image_scale)
    IN  [image_width |-> image_width,
         image_height |-> image_height,
         image_scale_x |-> image_scale,
         image_scale_y |-> image_scale,
         plane_start_x |-> F64Half(F64Neg(plane_width)),
         plane_start_y |-> F64Half(F64Neg(plane_height))]

View_get_plane_coordinates(view, x, y) ==
    Cx(F64Add(F64MulNat(x, view.image_scale_x), view.plane_start_x),
       F64Add(F64MulNat(y, view.image_scale_y), view.plane_start_y))

\* the plane widths of the inputs: n and n / 4 for n up to MaxPlaneWidth
CentrePlaneWidths == {Dy(n, sh) : <<n, sh>> \in (1..MaxPlaneWidth) \X {0, 2}}

InitCentre ==
    /\ EngineIdle
    /\ \E image_width \in 1..MaxWidth, image_height \in 1..MaxDim,
          plane_width \in CentrePlaneWidths :
          fn = [op |-> "new_uniform", stage |-> "in",
                image_width |-> image_width, image_height |-> image_height,
                plane_width |-> plane_width, view |-> "none", centre |-> NoPlane]

ApplyNewUniform ==
    /\ fn.op = "new_uniform" /\ fn.stage = "in"
    /\ fn' = [fn EXCEPT !.stage = "view",
                        !.view = View_new_uniform(fn.image_width, fn.image_height,
                                                  F64OfDyadic(fn.plane_width))]
    /\ UNCHANGED engineVars

\* get_plane_coordinates((width / 2, height / 2)), the divisions being
\* those of u32
ApplyCentre ==
    /\ fn.op = "new_uniform" /\ fn.stage = "view"
    /\ fn' = [fn EXCEPT !.stage = "centre",
                        !.centre = View_get_plane_coordinates(fn.view,
                                       fn.image_width \div 2, fn.image_height \div 2)]
    /\ UNCHANGED engineVars

NextCentre == ApplyNewUniform \/ ApplyCentre

SpecCentre == InitCentre /\ [][NextCentre]_vars

\* s is an f64 nearest to p / d: 2 * |s * d - p| <= d * (the last bit of s)
NearestQuotient(s, p, d) ==
    LET e == IF s.e < p.e THEN s.e ELSE p.e
        a == ShiftLeft(LimbsMul(s.m, d), s.e - e)
        b == ShiftLeft(p.m, p.e - e)
        diff == IF LimbsCompare(a, b) = "lt" THEN LimbsSub(b, a) ELSE LimbsSub(a, b)
    IN  /\ s.neg = p.neg
        /\ LimbsCompare(LimbsMul(diff, 2), ShiftLeft(LimbsOfNat(d), s.e - e)) # "gt"

\* what C19 says of the View itself: both scales are the positive f64
\* quotient plane_width / width, plane_start_x is -plane_width / 2 and
\* plane_start_y is -(height * scale) / 2
UniformView(view, image_width, image_height, plane_width) ==
    /\ view.image_scale_x = view.image_scale_y
    /\ NearestQuotient(view.image_scale_x, plane_width, image_width)
    /\ F64Positive(view.image_scale_x)
    /\ view.plane_start_x = F64Half(F64Neg(plane_width))
    /\ view.plane_start_y =
          F64Half(F64Neg(F64MulNat(image_height, view.image_scale_x)))

IsEven(n) == n % 2 = 0

(* C19: the original statement: new_uniform yields the scales              *)
(* plane_width / width > 0 and the starts -plane_width / 2 and             *)
(* -(height * scale) / 2, and for even width and height                    *)
(* get_plane_coordinates((width / 2, height / 2)) is exactly (0, 0).       *)
C19_CentreIsOrigin ==
    (fn.op = "new_uniform" /\ fn.stage = "centre") =>
        /\ UniformView(fn.view, fn.image_width, fn.image_height,
                       F64OfDyadic(fn.plane_width))
        /\ IsEven(fn.image_width) /\ IsEven(fn.image_height) =>
              fn.centre = Cx(F64Zero, F64Zero)

(* C19 as amended: the View is as stated; for even width and height the    *)
(* imaginary part of get_plane_coordinates((width / 2, height / 2)) is     *)
(* exactly 0, and the real part is exactly 0 when the f64 product          *)
(* (width / 2) * scale is exactly plane_width / 2; otherwise it is the     *)
(* rounding error of that product, of magnitude at most                    *)
(* plane_width * 2^-53.                                                    *)
C19_CentreNearOrigin ==
    (fn.op = "new_uniform" /\ fn.stage = "centre") =>
        LET plane_width == F64OfDyadic(fn.plane_width)
            half_width == F64MulNat(fn.image_width \div 2, fn.view.image_scale_x)
        IN  /\ UniformView(fn.view, fn.image_width, fn.image_height, plane_width)
            /\ IsEven(fn.image_height) => fn.centre.im = F64Zero
            /\ IsEven(fn.image_width) =>
                  /\ half_width = F64Half(plane_width) <=> fn.centre.re = F64Zero
                  /\ F64MagLe(fn.centre.re, [plane_width EXCEPT !.e = @ - Precision])

\* width 14, plane width 29: 7 * (29 / 14) is not 14.5 in f64
C19_Witness ==
    /\ fn.op = "new_uniform" /\ fn.stage = "centre"
    /\ fn.image_width = 14 /\ fn.image_height = 2 /\ fn.plane_width = FromInt(29)
    /\ fn.centre.re = [neg |-> FALSE, m |-> ShiftLeft(<<1>>, Precision - 1), e |-> -101]
    /\ fn.centre.im = F64Zero

-----------------------------------------------------------------------------
(* The crosshair of src/src/raster.rs: draw_constrained_crosshair on a     *)
(* frame buffer and the constrained pair View::get_pixel_coordinates       *)
(* returns for a plane point.                                              *)

\* a &mut [u8] under a sequence of indexed stores: an index past the end
\* panics and nothing is stored from then on
Buffer(img) == [image |-> img, panicked |-> FALSE]

\* image[index] = 0xFFu8
store_ff(buf, index) ==
    IF buf.panicked THEN buf
    ELSE IF index >= Len(buf.image) THEN [buf EXCEPT !.panicked = TRUE]
    ELSE [buf EXCEPT !.image[index + 1] = 255]

\* the four stores of one round of either loop
store_pixel_ff(buf, index) ==
    store_ff(store_ff(store_ff(store_ff(buf, index), index + 1), index + 2), index + 3)

\* the rounds y, y + 1, ... of the loop of draw_vertical_line
RECURSIVE VerticalFrom(_, _, _, _, _)
VerticalFrom(buf, image_width, image_height, pixel_x, y) ==
    IF y >= image_height THEN buf
    ELSE VerticalFrom(store_pixel_ff(buf, (y * image_width + pixel_x) * 4),
                      image_width, image_height, pixel_x, y + 1)

\* the rounds of a loop that strides by the image height
RECURSIVE VerticalHeightStrideFrom(_, _, _, _, _)
VerticalHeightStrideFrom(buf, image_width, image_height, pixel_x, y) ==
    IF y >= image_height THEN buf
    ELSE VerticalHeightStrideFrom(store_pixel_ff(buf, (y * image_height + pixel_x) * 4),
                                  image_width, image_height, pixel_x, y + 1)

draw_vertical_line_height_stride(buf, image_width, image_height, pixel_x) ==
    VerticalHeightStrideFrom(buf, image_width, image_height, pixel_x, 0)

draw_vertical_line(buf, image_width, image_height, pixel_x) ==
    VerticalFrom(buf, image_width, image_height, pixel_x, 0)

\* the rounds x, x + 1, ... of the loop of draw_horizontal_line
RECURSIVE HorizontalFrom(_, _, _, _)
HorizontalFrom(buf, image_width, pixel_y, x) ==
    IF x >= image_width THEN buf
    ELSE HorizontalFrom(store_pixel_ff(buf, (pixel_y * image_width + x) * 4),
                        image_width, pixel_y, x + 1)

draw_horizontal_line(buf, image_width, pixel_y) ==
    HorizontalFrom(buf, image_width, pixel_y, 0)

\* pixel is the pair <<pixel_x, pixel_y>>
draw_constrained_crosshair(buf, image_width, image_height, pixel) ==
    LET row == IF pixel[2].tag = "WithinConstraint"
               THEN draw_horizontal_line(buf, image_width, pixel[2].v)
               ELSE buf
    IN  IF pixel[1].tag = "WithinConstraint"
        THEN draw_vertical_line(row, image_width, image_height, pixel[1].v)
        ELSE row

\* frame buffers of width * height pixels as the engine fills them: alpha is
\* 255 in every pixel; all black, or a colour that varies with the pixel
Backgrounds(image_width, image_height) ==
    {[b \in 1..(image_width * image_height * 4) |->
         IF (b - 1) % 4 = 3 THEN 255 ELSE 0],
     [b \in 1..(image_width * image_height * 4) |->
         IF (b - 1) % 4 = 3 THEN 255 ELSE (((b - 1) \div 4) * 16 + ((b - 1) % 4)) % 255]}

InitRaster ==
    /\ EngineIdle
    /\ \E view \in Views, re \in GridPoints, im \in GridPoints :
          \E before \in Backgrounds(view.image_width, view.image_height) :
             fn = [op |-> "raster", stage |-> "plane_in", view |-> view,
                   plane |-> Cx(re, im), pixel |-> NoPixel,
                   before |-> before, buf |-> Buffer(before)]

\* view.get_pixel_coordinates(plane)
RasterConstrain ==
    /\ fn.stage = "plane_in"
    /\ fn' = [fn EXCEPT !.stage = "constrained",
                        !.pixel = get_pixel_coordinates(fn.view, fn.plane)]
    /\ UNCHANGED engineVars

\* draw_constrained_crosshair(&mut image, width, height, pixel)
RasterDraw ==
    /\ fn.stage = "constrained"
    /\ fn' = [fn EXCEPT !.stage = "drawn",
                        !.buf = draw_constrained_crosshair(fn.buf, fn.view.image_width,
                                                           fn.view.image_height, fn.pixel)]
    /\ UNCHANGED engineVars

NextRaster == RasterConstrain \/ RasterDraw

SpecRaster == InitRaster /\ [][NextRaster]_vars

(* C21: after draw_constrained_crosshair on a buffer of width*height*4     *)
(* bytes with the pair get_pixel_coordinates returned, no store was out of *)
(* range, the buffer has its length, and a byte is 0xFF when its pixel is  *)
(* in row pixel_y (y within the constraint) or in column pixel_x (x within *)
(* the constraint) and has its former value otherwise; when neither axis   *)
(* is within the constraint the whole buffer is unchanged.                 *)
C21_CrosshairBytes ==
    (fn.op = "raster" /\ fn.stage = "drawn") =>
        LET w == fn.view.image_width
            h == fn.view.image_height
            px == fn.pixel[1]
            py == fn.pixel[2]
        IN  /\ ~fn.buf.panicked
            /\ Len(fn.buf.image) = w * h * 4
            /\ px.tag = "WithinConstraint" => px.v < w
            /\ py.tag = "WithinConstraint" => py.v < h
            /\ \A b \in 1..(w * h * 4) :
                  LET x == ((b - 1) \div 4) % w
                      y == ((b - 1) \div 4) \div w
                  IN  fn.buf.image[b] =
                         IF \/ py.tag = "WithinConstraint" /\ y = py.v
                            \/ px.tag = "WithinConstraint" /\ x = px.v
                         THEN 255
                         ELSE fn.before[b]
            /\ (px.tag # "WithinConstraint" /\ py.tag # "WithinConstraint")
                  => fn.buf.image = fn.before

\* a crosshair in a 3 x 2 image with both axes within the constraint: bytes
\* were set and bytes off the cross kept a value other than 0xFF
C21_Witness ==
    /\ fn.op = "raster" /\ fn.stage = "drawn"
    /\ fn.view.image_width = 3 /\ fn.view.image_height = 2
    /\ fn.pixel[1] = WithinConstraint(2) /\ fn.pixel[2] = WithinConstraint(1)
    /\ fn.buf.image # fn.before
    /\ \E b \in 1..Len(fn.before) : fn.buf.image[b] = fn.before[b] /\ fn.before[b] # 255

-----------------------------------------------------------------------------
(* The length of the output buffer: generate_fractal partitions            *)
(* width as usize * height as usize indices and allocates                  *)
(* (width * height * 4) as usize bytes, the product being computed in u32  *)
(* (src/src/generator/mod.rs).  Numbers that do not fit TLC's integers are *)
(* limb sequences; usize has 64 bits.                                      *)

U32Bits == 32

\* a * b, both limb sequences: Horner's rule over the limbs 1..i of b
RECURSIVE TimesFrom(_, _, _)
TimesFrom(a, b, i) ==
    IF i = 0 THEN <<>>
    ELSE LET high == TimesFrom(a, b, i - 1)
         IN  LimbsAdd(IF high = <<>> THEN <<>> ELSE Append(high, 0),
                      LimbsMul(a, b[i]))

LimbsTimes(a, b) == Strip(TimesFrom(a, b, Len(b)))

\* a modulo 2^U32Bits: what a u32 keeps of a result
WrapU32(a) ==
    LET whole == U32Bits \div LimbBits
        low == IF Len(a) > whole THEN SubSeq(a, Len(a) - whole + 1, Len(a)) ELSE a
        top == IF Len(a) > whole
               THEN <<a[Len(a) - whole] % Pow2[U32Bits % LimbBits]>>
               ELSE <<>>
    IN  Strip(top \o low)

\* u32 multiplication without overflow checks
wrapping_mul(a, b) == WrapU32(LimbsTimes(a, b))

\* whether a u32 multiplication overflows
mul_overflows(a, b) == LimbsTimes(a, b) # wrapping_mul(a, b)

\* a buffer length that multiplied in usize
buffer_len_usize(width, height) ==
    LimbsTimes(LimbsTimes(LimbsOfNat(width), LimbsOfNat(height)), LimbsOfNat(4))

\* (width * height * 4) as usize of a build without overflow checks
buffer_len(width, height) ==
    wrapping_mul(wrapping_mul(LimbsOfNat(width), LimbsOfNat(height)), LimbsOfNat(4))

\* whether width * height * 4 overflows in u32
buffer_len_overflows(width, height) ==
    \/ mul_overflows(LimbsOfNat(width), LimbsOfNat(height))
    \/ mul_overflows(wrapping_mul(LimbsOfNat(width), LimbsOfNat(height)), LimbsOfNat(4))

\* width as usize * height as usize
pixel_count_usize(width, height) == LimbsTimes(LimbsOfNat(width), LimbsOfNat(height))

\* image widths and heights: small ones and multiples of 2^14, 2^15, 2^16
ImageDims == {d * Pow2[s] : d \in 0..MaxDim, s \in {0, 14, 15, 16}}

InitAlloc ==
    /\ EngineIdle
    /\ \E width \in ImageDims, height \in ImageDims :
          fn = [op |-> "alloc", stage |-> "start", width |-> width, height |-> height,
                n |-> <<>>, len |-> <<>>]

\* the partition: left_over and chunk_height are computed from
\* width as usize * height as usize
AllocPartition ==
    /\ fn.stage = "start"
    /\ fn' = [fn EXCEPT !.stage = "partitioned",
                        !.n = pixel_count_usize(fn.width, fn.height)]
    /\ UNCHANGED engineVars

\* vec![0u8; (width * height * 4) as usize] of a build without overflow
\* checks (release profile)
AllocBuffer ==
    /\ fn.stage = "partitioned"
    /\ fn' = [fn EXCEPT !.stage = "allocated",
                        !.len = buffer_len(fn.width, fn.height)]
    /\ UNCHANGED engineVars

\* the same expression of a build with overflow checks (debug profile):
\* "attempt to multiply with overflow"
AllocOverflowPanic ==
    /\ fn.stage = "partitioned"
    /\ buffer_len_overflows(fn.width, fn.height)
    /\ fn' = [fn EXCEPT !.stage = "panicked"]
    /\ UNCHANGED engineVars

NextAlloc == AllocPartition \/ AllocBuffer \/ AllocOverflowPanic

SpecAlloc == InitAlloc /\ [][NextAlloc]_vars

(* C22: for every width and height the expression width * height * 4 does  *)
(* not overflow, and the buffer generate_fractal allocates has exactly     *)
(* width*height*4 bytes, so that index*4 + 4 is within the buffer for      *)
(* every index below width*height.                                         *)
C22_BufferHoldsEveryIndex ==
    /\ fn.op = "alloc" => fn.stage # "panicked"
    /\ (fn.op = "alloc" /\ fn.stage = "allocated") =>
          /\ fn.len = LimbsTimes(fn.n, LimbsOfNat(4))
          /\ LimbsCompare(LimbsTimes(fn.n, LimbsOfNat(4)), fn.len) # "gt"

\* 65536 x 16384: the u32 product wraps to 0 while 2^30 indices are assigned
C22_Wrapped ==
    /\ fn.op = "alloc" /\ fn.stage = "allocated"
    /\ fn.width = 65536 /\ fn.height = 16384
    /\ fn.len = <<>>
    /\ fn.n = <<1, 0, 0>>

-----------------------------------------------------------------------------
(* mod2 (src/src/generator/mod.rs) on rounded f64 values, one round of its *)
(* two while loops at a time.                                              *)

\* f < g
F64Less(f, g) ==
    IF f.neg # g.neg THEN f.neg
    ELSE IF f.neg THEN ~F64MagLe(f, g)
    ELSE ~F64MagLe(g, f)

\* f - g
F64Sub(f, g) == F64Add(f, F64Neg(g))

\* the arguments min and max of the calls in gen_color: 0f64 and 256f64
Mod2Min == F64Zero
Mod2Max == F64OfNat(256)

\* largest k of the values (+/-) k * 2^e handed to mod2
MaxMant == 5

\* the exponents e: 2^-60 is lost when 256 is added, 2^62 is more than twice
\* the spacing at which 256 can still be subtracted
Mod2Exponents == {-60, -44, -1, 0, 6, 8, 62}

Mod2Values ==
    {RoundF64(neg, LimbsOfNat(k), e, FALSE) :
        <<neg, k, e>> \in BOOLEAN \X (0..MaxMant) \X Mod2Exponents}

InitMod2 ==
    /\ EngineIdle
    /\ \E value \in Mod2Values :
          fn = [op |-> "mod2", stage |-> "up", input |-> value, value |-> value,
                size |-> F64Sub(Mod2Max, Mod2Min)]

\* the first loop ended without a test: negative values stay negative
Mod2UpSkipped ==
    /\ fn.op = "mod2" /\ fn.stage = "up"
    /\ fn' = [fn EXCEPT !.stage = "down"]
    /\ UNCHANGED engineVars

\* while value < min { value += size }: one test, and one round if it holds
Mod2Up ==
    /\ fn.op = "mod2" /\ fn.stage = "up"
    /\ fn' = IF F64Less(fn.value, Mod2Min)
             THEN [fn EXCEPT !.value = F64Add(fn.value, fn.size)]
             ELSE [fn EXCEPT !.stage = "down"]
    /\ UNCHANGED engineVars

\* while value >= max { value -= size }: one test, and one round if it holds;
\* the value is returned when it fails
Mod2Down ==
    /\ fn.op = "mod2" /\ fn.stage = "down"
    /\ fn' = IF ~F64Less(fn.value, Mod2Max)
             THEN [fn EXCEPT !.value = F64Sub(fn.value, fn.size)]
             ELSE [fn EXCEPT !.stage = "done"]
    /\ UNCHANGED engineVars

NextMod2 == Mod2Up \/ Mod2Down

SpecMod2 == InitMod2 /\ [][NextMod2]_vars

\* a - b is an integer multiple of 256, computed exactly
Congruent256(a, b) ==
    LET e == IF a.e < b.e THEN a.e ELSE b.e
        x == IF a.m = <<>> THEN <<>> ELSE ShiftLeft(a.m, a.e - e)
        y == IF b.m = <<>> THEN <<>> ELSE ShiftLeft(b.m, b.e - e)
        d == IF a.neg # b.neg THEN LimbsAdd(x, y)
             ELSE IF LimbsCompare(x, y) = "lt" THEN LimbsSub(y, x)
             ELSE LimbsSub(x, y)
    IN  e >= 8 \/ ~ShiftRight(d, 8 - e).sticky

\* 0 <= r < 256
InRange256(r) == ~F64Less(r, Mod2Min) /\ F64Less(r, Mod2Max)

\* |v| < 2^53 and v is an integer multiple of 2^-44: every addition and
\* subtraction of 256 on the way into [0, 256) is exact
ExactlyWrapped(v) ==
    v.m = <<>> \/ (v.e <= 0 /\ (v.e >= -44 \/ ~ShiftRight(v.m, (-44) - v.e).sticky))

(* C23 as stated: for every value, mod2(value, 0, 256) terminates (every   *)
(* round of either loop changes the value it tests) and returns the r with *)
(* 0 <= r < 256 that is congruent to value modulo 256.                     *)
C23_WrapsEveryValue ==
    fn.op = "mod2" =>
        /\ (fn.stage = "up" /\ F64Less(fn.value, Mod2Min))
              => F64Add(fn.value, fn.size) # fn.value
        /\ (fn.stage = "down" /\ ~F64Less(fn.value, Mod2Max))
              => F64Sub(fn.value, fn.size) # fn.value
        /\ fn.stage = "done"
              => InRange256(fn.value) /\ Congruent256(fn.value, fn.input)

(* C23 amended: for every value with |value| < 2^53 that is an integer     *)
(* multiple of 2^-44, negative or not, mod2(value, 0, 256) terminates and  *)
(* returns the r with 0 <= r < 256 that is congruent to value modulo 256:  *)
(* every round of the first loop raises the value and every round of the   *)
(* second lowers it, by a multiple of 256 that is exact, no round of the   *)
(* second loop makes it negative, and the value returned is in range.  Any *)
(* value that is returned at all is below 256.                             *)
C23_WrapsExactValues ==
    (fn.op = "mod2") =>
        /\ fn.stage = "done" => F64Less(fn.value, Mod2Max)
        /\ ExactlyWrapped(fn.input) =>
              /\ Congruent256(fn.value, fn.input)
              /\ (fn.stage = "up" /\ F64Less(fn.value, Mod2Min))
                    => F64Less(fn.value, F64Add(fn.value, fn.size))
              /\ (fn.stage = "down" /\ ~F64Less(fn.value, Mod2Max))
                    => F64Less(F64Sub(fn.value, fn.size), fn.value)
              /\ fn.stage \in {"down", "done"} => ~F64Less(fn.value, Mod2Min)
              /\ fn.stage = "done" => InRange256(fn.value)

\* -1 went up to 255 and 5 * 64 = 320 went down to 64
C23_Witness ==
    /\ fn.op = "mod2" /\ fn.stage = "done"
    /\ \/ fn.input = F64Neg(F64OfNat(1)) /\ fn.value = F64OfNat(255)
       \/ fn.input = F64OfNat(320) /\ fn.value = F64OfNat(64)

-----------------------------------------------------------------------------
\* the indices worker w has sent: those in the channel or already written
SentBy(w) ==
    {p \in Assigned(w) : writes[p] > 0 \/ \E j \in 1..Len(chan) : chan[j].index = p}

\* the arguments start_generation can be called with on the thread object w
\* of this run: those of generate_fractal, and those of one more pixel
StartArguments(w) ==
    {<<Width, chunk_height(PixelCount, K, w), w, K>>,
     <<Width, chunk_height(PixelCount, K, w) + 1, w, K>>}

(* C24: the state of every FractalThread changes only from NotStarted to   *)
(* Running, in the round of generate_fractal's start loop that calls       *)
(* start_generation on it, which spawns its one thread and sets progress   *)
(* to 0, and from Running to Finished, in a step of its own worker thread  *)
(* taken after all its size pixels have been sent; a thread is spawned in  *)
(* no other step, its join handle is stored once, by the call that spawned *)
(* it, and a whole start_generation call on a thread object whose state is *)
(* Running changes nothing of it (no second thread, progress not reset).   *)
C24_StateMachine ==
    /\ [](\A w \in Workers :
            (threads[w].state = "Running" /\ threads[w].state_lock = "free") =>
                \A a \in StartArguments(w) :
                    end_start_generation(
                        start_generation(threads[w], a[1], a[2], a[3], a[4]))
                      = threads[w])
    /\ [][\A w \in Workers :
            /\ threads'[w].state # threads[w].state =>
                  \/ /\ threads[w].state = "NotStarted" /\ threads'[w].state = "Running"
                     /\ co.pc = "spawn" /\ co.index = w /\ co'.index = w
                     /\ threads[w].pc = "none" /\ threads'[w].pc = "loop"
                     /\ ~threads'[w].thread
                     /\ threads'[w].progress = Progress(0, 1)
                  \/ /\ threads[w].state = "Running" /\ threads'[w].state = "Finished"
                     /\ threads[w].pc = "loop" /\ threads'[w].pc = "exit"
                     /\ threads[w].i = threads[w].size
                     /\ Cardinality(SentBy(w)) = threads[w].size
                     /\ co' = co
            /\ (threads[w].pc = "none" /\ threads'[w].pc # "none") =>
                  threads[w].state = "NotStarted" /\ threads'[w].state = "Running"
            /\ threads'[w].thread # threads[w].thread =>
                  /\ ~threads[w].thread /\ co.index = w
                  /\ threads[w].state_lock = "co" /\ threads[w].pc # "none"
                  /\ threads'[w].state = threads[w].state]_vars

\* worker 0 has finished its two pixels while worker 1 is Running and has
\* sent its pixel and written its progress before its join handle is stored
C24_Witness ==
    /\ K = 2 /\ PixelCount = 3
    /\ threads[0].state = "Finished"
    /\ threads[1].state = "Running" /\ threads[1].progress = Progress(1, 1)
    /\ ~threads[1].thread /\ threads[1].state_lock = "co"

-----------------------------------------------------------------------------
(* C25: when generate_fractal returns (no worker having failed), every     *)
(* worker's state is Finished, the progress of every worker that was given *)
(* at least one pixel is exactly 1 (size / size), and the progress of a    *)
(* worker that was given none is 0; at any time, a worker whose sender has *)
(* been dropped has set Finished before.                                   *)
C25_AllFinishedAtReturn ==
    /\ \A w \in Workers :
          (threads[w].pc # "none" /\ ~threads[w].tx) => threads[w].state = "Finished"
    /\ co.pc = "done" =>
          \A w \in Workers :
             /\ threads[w].state = "Finished"
             /\ threads[w].size = chunk_height(PixelCount, K, w)
             /\ threads[w].size > 0 =>
                   /\ threads[w].progress.num = threads[w].progress.den
                   /\ threads[w].progress.den = threads[w].size
             /\ threads[w].size = 0 => threads[w].progress = Progress(0, 1)

\* a return with K = 2 > N = 1: worker 0 at progress 1, worker 1 at 0
C25_Witness ==
    /\ co.pc = "done" /\ K = 2 /\ PixelCount = 1
    /\ threads[0].progress = Progress(1, 1)
    /\ threads[1].progress = Progress(0, 1)
    /\ threads[1].state = "Finished"
    /\ \A w \in Workers : threads[w].thread

-----------------------------------------------------------------------------
(* C26: the original statement: the progress of worker w never exceeds    *)
(* (pixels w has sent) / size, and every value handed to the progress      *)
(* callback under-reports by at most one pixel: at the invocation the      *)
(* entry of worker w is k / size with k at most the number of pixels w has *)
(* sent and at least that number less one.                                 *)
C26_HandedOnePixelBehind ==
    /\ [](\A w \in Workers :
            threads[w].progress.num <= Cardinality(SentBy(w)))
    /\ [][reports' # reports =>
            \A w \in Workers :
                /\ reports'[Len(reports')][w + 1].num <= Cardinality(SentBy(w))
                /\ Cardinality(SentBy(w)) <= reports'[Len(reports')][w + 1].num + 1]_vars

(* C26 as amended: in every state of a run the progress of worker w is 0   *)
(* or k / size with 1 <= k <= size, k is at most the number of pixels w    *)
(* has sent and at least that number less one (progress is written after   *)
(* the send); no step lowers a worker's progress; every entry of the       *)
(* vector read for the callback is the worker's progress value of the      *)
(* state it is read in, so it is at most one pixel behind the worker's     *)
(* sends when it is read, and every value handed to the callback is at     *)
(* most (pixels sent) / size then and ever after.                          *)
C26_ProgressBehindSends ==
    /\ [](\A w \in Workers :
            /\ threads[w].progress \in
                  {Progress(0, 1)} \cup {Progress(k, threads[w].size) : k \in 1..threads[w].size}
            /\ threads[w].progress.num <= Cardinality(SentBy(w))
            /\ Cardinality(SentBy(w)) <= threads[w].progress.num + 1
            /\ \A r \in 1..Len(reports) :
                  reports[r][w + 1].num <= Cardinality(SentBy(w)))
    /\ [][\A w \in Workers :
            /\ ProgressLe(threads[w].progress, threads'[w].progress)
            /\ threads'[w].progress # threads[w].progress =>
                  threads'[w].progress.num = threads[w].progress.num + 1
            /\ Len(co'.thread_progress) = w + 1 /\ Len(co.thread_progress) = w =>
                  /\ co'.thread_progress[w + 1] = threads[w].progress
                  /\ co'.thread_progress[w + 1].num + 1 >= Cardinality(SentBy(w))]_vars

\* the callback is about to be handed 0 / 2 for worker 0, read before the
\* worker wrote any progress, while worker 0 has sent both of its pixels and
\* written the progress of the first
C26_Witness ==
    /\ K = 2 /\ PixelCount = 3
    /\ co.pc = "report"
    /\ co.thread_progress[1].num = 0
    /\ threads[0].progress = Progress(1, 2)
    /\ Cardinality(SentBy(0)) = 2

-----------------------------------------------------------------------------
(* The locks of the engine (src/src/generator/mod.rs): every FractalThread *)
(* has a state RwLock, a progress RwLock and a thread Mutex.  One step per *)
(* acquisition and per release; a thread that needs a lock waits until it  *)
(* is free.  The pixels and the image are left out: a worker's round is a  *)
(* send and a progress write, the channel is the number of messages in it. *)

\* a lock is held by nobody, by the coordinator or by the worker of its
\* FractalThread; a RwLock also counts its readers
Free == "none"

LockRunThread(size) ==
    [pc |-> "none", i |-> 0, size |-> size, state |-> "NotStarted", tx |-> FALSE]

InitLocks ==
    /\ EngineIdle
    /\ \E k \in 1..MaxK, n \in 0..MaxPixels :
          fn = [op |-> "locks", K |-> k,
                co |-> [pc |-> "start", index |-> 0, r |-> 0],
                th |-> [w \in 0..(k - 1) |-> LockRunThread(chunk_height(n, k, w))],
                state_lock |-> [w \in 0..(k - 1) |-> Free],
                progress_writer |-> [w \in 0..(k - 1) |-> Free],
                progress_readers |-> [w \in 0..(k - 1) |-> 0],
                thread_lock |-> [w \in 0..(k - 1) |-> Free],
                queued |-> 0]

LockWorkers == 0..(fn.K - 1)

\* start_generation: let mut state = self.state.write().unwrap()
CoLockState ==
    /\ fn.op = "locks" /\ fn.co.pc = "start" /\ fn.co.index < fn.K
    /\ fn.state_lock[fn.co.index] = Free
    /\ fn' = [fn EXCEPT !.state_lock[fn.co.index] = "co", !.co.pc = "test"]
    /\ UNCHANGED engineVars

\* if *state != Running { *state = Running; ...
CoTestState ==
    /\ fn.op = "locks" /\ fn.co.pc = "test"
    /\ fn' = IF fn.th[fn.co.index].state # "Running"
             THEN [fn EXCEPT !.th[fn.co.index].state = "Running",
                             !.co.pc = "progress_lock"]
             ELSE [fn EXCEPT !.co.pc = "state_unlock"]
    /\ UNCHANGED engineVars

\* self.progress.write(), the state guard being held
CoLockProgress ==
    /\ fn.op = "locks" /\ fn.co.pc = "progress_lock"
    /\ fn.progress_writer[fn.co.index] = Free /\ fn.progress_readers[fn.co.index] = 0
    /\ fn' = [fn EXCEPT !.progress_writer[fn.co.index] = "co", !.co.pc = "progress_store"]
    /\ UNCHANGED engineVars

\* ... = 0f32; the temporary guard is dropped at the end of the statement
CoStoreProgress ==
    /\ fn.op = "locks" /\ fn.co.pc = "progress_store"
    /\ fn' = [fn EXCEPT !.progress_writer[fn.co.index] = Free, !.co.pc = "spawn"]
    /\ UNCHANGED engineVars

\* thread::Builder::spawn: the value assigned is evaluated before the place
CoSpawn ==
    /\ fn.op = "locks" /\ fn.co.pc = "spawn"
    /\ fn' = [fn EXCEPT !.th[fn.co.index].pc = "loop", !.th[fn.co.index].tx = TRUE,
                        !.co.pc = "thread_lock"]
    /\ UNCHANGED engineVars

\* self.thread.lock()
CoLockThread ==
    /\ fn.op = "locks" /\ fn.co.pc = "thread_lock"
    /\ fn.thread_lock[fn.co.index] = Free
    /\ fn' = [fn EXCEPT !.thread_lock[fn.co.index] = "co", !.co.pc = "thread_store"]
    /\ UNCHANGED engineVars

\* ... = Some(handle); the MutexGuard is dropped
CoStoreHandle ==
    /\ fn.op = "locks" /\ fn.co.pc = "thread_store"
    /\ fn' = [fn EXCEPT !.thread_lock[fn.co.index] = Free, !.co.pc = "state_unlock"]
    /\ UNCHANGED engineVars

\* a return from start_generation that leaks the state guard
CoUnlockStateLeaks ==
    /\ fn.op = "locks" /\ fn.co.pc = "state_unlock"
    /\ fn' = [fn EXCEPT !.co.index = @ + 1, !.co.pc = "start"]
    /\ UNCHANGED engineVars

\* start_generation returns: the state guard is dropped
CoUnlockState ==
    /\ fn.op = "locks" /\ fn.co.pc = "state_unlock"
    /\ fn' = [fn EXCEPT !.state_lock[fn.co.index] = Free,
                        !.co.index = @ + 1, !.co.pc = "start"]
    /\ UNCHANGED engineVars

\* the start loop is over: tx is dropped, the image is allocated
CoEndStart ==
    /\ fn.op = "locks" /\ fn.co.pc = "start" /\ fn.co.index = fn.K
    /\ fn' = [fn EXCEPT !.co.pc = "recv"]
    /\ UNCHANGED engineVars

\* a message is received and written; the interval has passed or not
CoReceive ==
    /\ fn.op = "locks" /\ fn.co.pc = "recv" /\ fn.queued > 0
    /\ \E report \in BOOLEAN :
          fn' = [fn EXCEPT !.queued = @ - 1,
                           !.co.pc = IF report THEN "read_lock" ELSE "recv",
                           !.co.r = 0]
    /\ UNCHANGED engineVars

\* get_progress of thread r: self.progress.read()
CoReadLock ==
    /\ fn.op = "locks" /\ fn.co.pc = "read_lock"
    /\ fn.progress_writer[fn.co.r] = Free
    /\ fn' = [fn EXCEPT !.progress_readers[fn.co.r] = @ + 1, !.co.pc = "read"]
    /\ UNCHANGED engineVars

\* the value is copied and the read guard dropped
CoReadUnlock ==
    /\ fn.op = "locks" /\ fn.co.pc = "read"
    /\ fn' = [fn EXCEPT !.progress_readers[fn.co.r] = @ - 1,
                        !.co.r = @ + 1,
                        !.co.pc = IF fn.co.r + 1 = fn.K THEN "callback" ELSE "read_lock"]
    /\ UNCHANGED engineVars

\* progress_callback(thread_progress)
CoCallback ==
    /\ fn.op = "locks" /\ fn.co.pc = "callback"
    /\ fn' = [fn EXCEPT !.co.pc = "recv"]
    /\ UNCHANGED engineVars

\* the channel is empty and every sender dropped: Ok(image)
CoDisconnected ==
    /\ fn.op = "locks" /\ fn.co.pc = "recv" /\ fn.queued = 0
    /\ fn.co.index = fn.K /\ \A w \in LockWorkers : ~fn.th[w].tx
    /\ fn' = [fn EXCEPT !.co.pc = "done"]
    /\ UNCHANGED engineVars

\* image_thread_func: img_data.send(..)
LockWorkerSend(w) ==
    /\ fn.op = "locks" /\ fn.th[w].pc = "loop" /\ fn.th[w].i < fn.th[w].size
    /\ fn' = [fn EXCEPT !.queued = @ + 1, !.th[w].pc = "progress_lock"]
    /\ UNCHANGED engineVars

\* self.progress.write()
LockWorkerLockProgress(w) ==
    /\ fn.op = "locks" /\ fn.th[w].pc = "progress_lock"
    /\ fn.progress_writer[w] = Free /\ fn.progress_readers[w] = 0
    /\ fn' = [fn EXCEPT !.progress_writer[w] = "worker", !.th[w].pc = "progress_store"]
    /\ UNCHANGED engineVars

\* ... = (i + 1) / size; the guard is dropped
LockWorkerStoreProgress(w) ==
    /\ fn.op = "locks" /\ fn.th[w].pc = "progress_store"
    /\ fn' = [fn EXCEPT !.progress_writer[w] = Free, !.th[w].i = @ + 1,
                        !.th[w].pc = "loop"]
    /\ UNCHANGED engineVars

\* after the loop: self.state.write()
LockWorkerLockState(w) ==
    /\ fn.op = "locks" /\ fn.th[w].pc = "loop" /\ fn.th[w].i = fn.th[w].size
    /\ fn.state_lock[w] = Free
    /\ fn' = [fn EXCEPT !.state_lock[w] = "worker", !.th[w].pc = "state_store"]
    /\ UNCHANGED engineVars

\* ... = Finished; the guard is dropped
LockWorkerStoreState(w) ==
    /\ fn.op = "locks" /\ fn.th[w].pc = "state_store"
    /\ fn' = [fn EXCEPT !.state_lock[w] = Free, !.th[w].state = "Finished",
                        !.th[w].pc = "exit"]
    /\ UNCHANGED engineVars

\* image_thread_func returns: img_data is dropped
LockWorkerExit(w) ==
    /\ fn.op = "locks" /\ fn.th[w].pc = "exit"
    /\ fn' = [fn EXCEPT !.th[w].tx = FALSE, !.th[w].pc = "done"]
    /\ UNCHANGED engineVars

LockCoordinator ==
    \/ CoLockState \/ CoTestState \/ CoLockProgress \/ CoStoreProgress \/ CoSpawn
    \/ CoLockThread \/ CoStoreHandle \/ CoUnlockState \/ CoEndStart \/ CoReceive
    \/ CoReadLock \/ CoReadUnlock \/ CoCallback \/ CoDisconnected

LockWorker(w) ==
    \/ LockWorkerSend(w) \/ LockWorkerLockProgress(w) \/ LockWorkerStoreProgress(w)
    \/ LockWorkerLockState(w) \/ LockWorkerStoreState(w) \/ LockWorkerExit(w)

NextLocks ==
    \/ CoLockState
    \/ CoTestState
    \/ CoLockProgress
    \/ CoStoreProgress
    \/ CoSpawn
    \/ CoLockThread
    \/ CoStoreHandle
    \/ CoUnlockState
    \/ CoEndStart
    \/ CoReceive
    \/ CoReadLock
    \/ CoReadUnlock
    \/ CoCallback
    \/ CoDisconnected
    \/ \E w \in LockWorkers : LockWorkerSend(w)
    \/ \E w \in LockWorkers : LockWorkerLockProgress(w)
    \/ \E w \in LockWorkers : LockWorkerStoreProgress(w)
    \/ \E w \in LockWorkers : LockWorkerLockState(w)
    \/ \E w \in LockWorkers : LockWorkerStoreState(w)
    \/ \E w \in LockWorkers : LockWorkerExit(w)

SpecLocks == InitLocks /\ [][NextLocks]_vars

\* the operating system schedules every thread that can run
FairSpecLocks ==
    /\ SpecLocks
    /\ WF_vars(LockCoordinator)
    /\ \A w \in 0..(MaxK - 1) : WF_vars(w \in LockWorkers /\ LockWorker(w))

\* the coordinator waits for a lock of FractalThread w
CoWaitsForLock(w) ==
    \/ fn.co.pc = "start" /\ fn.co.index = w /\ fn.state_lock[w] # Free
    \/ /\ fn.co.pc = "progress_lock" /\ fn.co.index = w
       /\ (fn.progress_writer[w] # Free \/ fn.progress_readers[w] # 0)
    \/ fn.co.pc = "thread_lock" /\ fn.co.index = w /\ fn.thread_lock[w] # Free
    \/ fn.co.pc = "read_lock" /\ fn.co.r = w /\ fn.progress_writer[w] # Free

\* worker w waits for a lock
WorkerWaitsForLock(w) ==
    \/ /\ fn.th[w].pc = "progress_lock"
       /\ (fn.progress_writer[w] # Free \/ fn.progress_readers[w] # 0)
    \/ /\ fn.th[w].pc = "loop" /\ fn.th[w].i = fn.th[w].size
       /\ fn.state_lock[w] # Free

\* the coordinator waits for a message of a worker that still holds a sender
CoWaitsForMessage ==
    /\ fn.co.pc = "recv" /\ fn.queued = 0
    /\ \E w \in LockWorkers : fn.th[w].tx

(* C27: the engine's lock usage is deadlock-free.  The coordinator takes   *)
(* the progress write lock and the thread mutex only inside                *)
(* start_generation, holding the state write lock of the same thread       *)
(* object; a worker holds at most one lock at a time; in the receive loop  *)
(* the coordinator holds no write lock and no mutex, only a read lock on   *)
(* progress.  In every interleaving a thread that waits for a lock waits   *)
(* for one whose holder is not waiting, the coordinator never waits for a  *)
(* message while holding a lock a worker waits for, some thread can take a *)
(* step until generate_fractal has returned, and under fair scheduling it  *)
(* returns.                                                                *)
C27_DeadlockFree ==
    /\ [](fn.op = "locks" =>
            /\ \A w \in LockWorkers :
                  /\ (fn.progress_writer[w] = "co" \/ fn.thread_lock[w] = "co")
                        => fn.state_lock[w] = "co" /\ fn.co.index = w
                  /\ ~(fn.progress_writer[w] = "worker" /\ fn.state_lock[w] = "worker")
                  /\ fn.thread_lock[w] # "worker"
                  /\ fn.co.pc \in {"recv", "read_lock", "read", "callback", "done"}
                        => /\ fn.state_lock[w] # "co" /\ fn.progress_writer[w] # "co"
                           /\ fn.thread_lock[w] # "co"
                  /\ ~(CoWaitsForLock(w) /\ WorkerWaitsForLock(w))
                  /\ ~(CoWaitsForMessage /\ WorkerWaitsForLock(w)
                         /\ (fn.state_lock[w] = "co" \/ fn.progress_readers[w] # 0))
            /\ fn.co.pc # "done" => ENABLED NextLocks)
    /\ <>(fn.op = "locks" /\ fn.co.pc = "done")

\* a worker without pixels waits for the state lock of its thread object
\* while the coordinator, inside start_generation, still holds it
C27_Witness ==
    /\ fn.op = "locks"
    /\ \E w \in LockWorkers :
          /\ WorkerWaitsForLock(w) /\ fn.state_lock[w] = "co"
          /\ fn.co.pc = "thread_store"

-----------------------------------------------------------------------------
\* the escape test of the engine that produced fn.esc
EscapedAt(z, stage, g) ==
    DGt(norm_sqr(z), IF stage = "polling_out" THEN FromInt(1)
                     ELSE radius_squared(g.smoothing))

(* C28: for gen_value of either engine the count n is between 0 and        *)
(* iterations and the z it ends with is the result of exactly n steps      *)
(* z <- z*z + c; in Mandelbrot mode with iterations >= 1, n >= 1; the      *)
(* tests before the n-th step all failed, and n < iterations only when the *)
(* test on the n-th iterate succeeded, so n = iterations whenever none of  *)
(* the first iterations tests succeeded, whatever the last z.              *)
C28_CountBounds ==
    (fn.op = "gen" /\ fn.stage \in {"value_out", "polling_out"}) =>
        LET z0 == IF fn.g.mandelbrot THEN Cx(FromInt(0), FromInt(0)) ELSE fn.loc
            c  == IF fn.g.mandelbrot THEN fn.loc ELSE fn.g.c
            n  == fn.esc.n
        IN  /\ 0 <= n /\ n <= fn.g.iterations
            /\ fn.esc.z = Orbit(z0, c, n)
            /\ (fn.g.mandelbrot /\ fn.g.iterations >= 1) => n >= 1
            /\ (n # fn.g.iterations) =>
                  \E k \in 0..(fn.g.iterations - 1) :
                     /\ k = n
                     /\ EscapedAt(Orbit(z0, c, k), fn.stage, fn.g)
            /\ \A k \in 0..(fn.g.iterations - 1) :
                  k < n => ~EscapedAt(Orbit(z0, c, k), fn.stage, fn.g)

\* Mandelbrot mode at (2, 2) with a cap of 1: the only test, on z = 0,
\* failed, n is the cap and the z of the one step is outside the radius
C28_Witness ==
    /\ fn.op = "gen" /\ fn.stage = "value_out"
    /\ fn.g.mandelbrot /\ fn.g.iterations = 1
    /\ fn.loc = Cx(FromInt(2), FromInt(2))
    /\ fn.esc.n = 1
    /\ EscapedAt(fn.esc.z, fn.stage, fn.g)

-----------------------------------------------------------------------------
(* generate_fractal called with any num_threads, 0 included: the run       *)
(* starts at the computation of left_over.                                 *)

InitAnyThreads ==
    /\ gen \in EngineGenerators
    /\ K \in 0..MaxK
    /\ interval \in {0, 1}
    /\ threads = [w \in Workers |-> FractalThreadNew]
    /\ chan = <<>>
    /\ image = <<>>
    /\ writes = [p \in 0..(PixelCount - 1) |-> 0]
    /\ co = [pc |-> "partition", index |-> 0, tx |-> TRUE, previous_progress |-> 0,
             thread_progress |-> <<>>, result |-> NoResult]
    /\ clock = 0
    /\ reports = <<>>
    /\ fn = FnIdle

\* a remainder that is 0 for the divisor 0
PartitionZeroRemainder ==
    /\ co.pc = "partition"
    /\ co' = [co EXCEPT !.pc = "spawn"]
    /\ UNCHANGED <<gen, K, interval, threads, chan, image, writes, clock, reports, fn>>

\* let left_over = width as usize * height as usize % num_threads: the
\* remainder with a divisor of zero panics
Partition ==
    /\ co.pc = "partition"
    /\ co' = IF K = 0 THEN [co EXCEPT !.pc = "panic", !.tx = FALSE]
             ELSE [co EXCEPT !.pc = "spawn"]
    /\ UNCHANGED <<gen, K, interval, threads, chan, image, writes, clock, reports, fn>>

NextAnyThreads ==
    \/ Partition
    \/ Next

SpecAnyThreads == InitAnyThreads /\ [][NextAnyThreads]_vars

(* C29: generate_fractal called with num_threads = 0 panics in the         *)
(* computation of the partition: no worker thread exists or is started, no *)
(* message is sent, the output buffer is never allocated and nothing is    *)
(* returned; with num_threads >= 1 the partition does not panic.           *)
C29_ZeroThreadsPanics ==
    /\ (K = 0 /\ co.pc # "partition") =>
          /\ co.pc = "panic"
          /\ threads = <<>> /\ chan = <<>>
          /\ image = <<>>
          /\ co.result = NoResult
    /\ K >= 1 => co.pc # "panic"
    /\ co.pc = "done" => K >= 1

\* the panic, on an image with pixels
C29_Witness ==
    /\ K = 0 /\ co.pc = "panic" /\ PixelCount = 2

-----------------------------------------------------------------------------
\* the positions of the coordinator between the test of the interval and the
\* return of progress_callback
Reporting == {"read_lock", "read", "report"}

\* the number of pixel writes the coordinator has made to indices below p
RECURSIVE WritesBelow(_)
WritesBelow(p) == IF p = 0 THEN 0 ELSE WritesBelow(p - 1) + writes[p - 1]

(* C30: the progress callback is invoked only by the coordinator, in the   *)
(* round of the receive loop that has just written a received pixel: the   *)
(* coordinator reaches the reads of the progress values and the invocation *)
(* only by a step that takes a message from the channel and writes it, it  *)
(* writes no other pixel before the invocation, and each such step is      *)
(* followed by at most one invocation; there is none before the first      *)
(* pixel is received and none after the loop has ended, so a run has at    *)
(* most as many invocations as pixels received, at most N.                 *)
C30_CallbackAfterWrite ==
    /\ [](/\ Len(reports) <= WritesBelow(PixelCount)
          /\ WritesBelow(PixelCount) <= PixelCount
          /\ co.pc \in Reporting => Len(reports) < WritesBelow(PixelCount)
          /\ co.pc \in {"spawn", "store_handle", "return_start", "alloc"} =>
                reports = <<>>)
    /\ [][/\ reports' # reports =>
                /\ co.pc = "report" /\ co'.pc = "recv"
                /\ Len(reports') = Len(reports) + 1
                /\ threads' = threads /\ chan' = chan /\ image' = image
          /\ (co'.pc \in Reporting /\ co.pc \notin Reporting) =>
                /\ co.pc = "recv" /\ chan # <<>> /\ chan' = Tail(chan)
                /\ writes'[Head(chan).index] = writes[Head(chan).index] + 1
                /\ reports' = reports
          /\ co.pc \in Reporting =>
                /\ image' = image /\ writes' = writes
                /\ co'.pc \in Reporting \/ reports' # reports
          /\ co.pc = "done" => reports' = reports]_vars

\* a run that has ended after three pixels with one invocation, whose
\* vector has a worker below progress 1
C30_Witness ==
    /\ co.pc = "done" /\ PixelCount = 3
    /\ Len(reports) = 1
    /\ \E j \in 1..K : reports[1][j].num < reports[1][j].den

====
